---- MODULE Spec2Model ----
(***************************************************************************)
(* A model of the TREC inspection report generator: the DataMapper that    *)
(* reads the parsed inspection.json tree (src/data_mapper.py) and the      *)
(* TRECFieldMapper that marks the checkbox widgets of the PDF form         *)
(* (src/trec_field_mapper.py).                                             *)
(*                                                                         *)
(* Python values are tagged records [t |-> type, v |-> payload]; a raised  *)
(* exception is the value [t |-> "raise", v |-> exception class], so that  *)
(* "never raises" is a property of a result.                               *)
(***************************************************************************)
EXTENDS Integers, Sequences, FiniteSets, TLC

VARIABLES
    data,   \* DataMapper.data: the tree parsed from inspection.json
    form,   \* the open fitz.Document: a sequence of pages of widgets
    call,   \* the last call made: its name, its arguments and its result
    cache,  \* ImageHandler.cache: the image kept for each url downloaded
    files,  \* the names of the files of the working directory
    trace   \* what the calls made so far did, in order

vars == <<data, form, call, cache, files, trace>>

-----------------------------------------------------------------------------
(* Python values *)

\* One limb of an int: ints are unbounded in Python, the model keeps them as
\* <<hi, lo>> with value hi * Limb + lo and 0 <= lo < Limb (one day in ms).
Limb == 86400 * 1000

PyNone == [t |-> "None", v |-> "None"]
PyStr(s) == [t |-> "str", v |-> s]
PyBool(b) == [t |-> "bool", v |-> b]
PyBig(hi, lo) == [t |-> "int", v |-> <<hi, lo>>]
PyInt(n) == PyBig(n \div Limb, n % Limb)
\* the floats json.load yields that no date holds: "inf", "nan", "1e+30"
PyFloat(s) == [t |-> "float", v |-> s]
PyList(q) == [t |-> "list", v |-> q]
PyDict(f) == [t |-> "dict", v |-> f]
PyRaise(e) == [t |-> "raise", v |-> e]

EmptyDict == PyDict(<<>>)
\* a key that a generated dict leaves out
Absent == [t |-> "absent", v |-> "absent"]
Opt(key, x) == IF x.t = "absent" THEN <<>> ELSE key :> x

Raised(x) == x.t = "raise"

\* bool(x)
Truthy(x) ==
    CASE x.t = "None" -> FALSE
      [] x.t = "bool" -> x.v
      [] x.t = "int" -> x.v # <<0, 0>>
      [] x.t = "str" -> x.v # ""
      [] x.t = "list" -> x.v # <<>>
      [] x.t = "dict" -> DOMAIN x.v # {}
      [] OTHER -> TRUE

\* obj.get(key, dflt): AttributeError on anything but a dict
DictGet(obj, key, dflt) ==
    IF obj.t = "dict"
    THEN IF key \in DOMAIN obj.v THEN obj.v[key] ELSE dflt
    ELSE PyRaise("AttributeError")

Digit == <<"0", "1", "2", "3", "4", "5", "6", "7", "8", "9">>

\* decimal text of a non-negative int below Limb * 10
RECURSIVE NatText(_)
NatText(n) == IF n < 10 THEN Digit[n + 1] ELSE NatText(n \div 10) \o Digit[(n % 10) + 1]

\* decimal text of a non-negative two-limb int: long division by 10
RECURSIVE LimbText(_, _)
LimbText(hi, lo) ==
    IF hi = 0 THEN NatText(lo)
    ELSE LET rest == (hi % 10) * Limb + lo
             q == rest \div 10
         IN  LimbText(hi \div 10 + q \div Limb, q % Limb) \o Digit[(rest % 10) + 1]

IntText(p) ==
    IF p[1] >= 0 THEN LimbText(p[1], p[2])
    ELSE IF p[2] = 0 THEN "-" \o LimbText(-p[1], 0)
    ELSE "-" \o LimbText(-p[1] - 1, Limb - p[2])

\* str(x); the repr of a list or a dict is kept symbolic: [t |-> "strof"]
\* is the string Python prints for the container v
StrOf(x) ==
    CASE x.t = "str" -> x
      [] x.t = "int" -> PyStr(IntText(x.v))
      [] x.t = "bool" -> PyStr(IF x.v THEN "True" ELSE "False")
      [] x.t = "None" -> PyStr("None")
      [] x.t = "float" -> PyStr(x.v)
      [] OTHER -> [t |-> "strof", v |-> x]

SENTINEL == "Data not found in test data"

-----------------------------------------------------------------------------
(* DataMapper *)

\* self.inspection = self.data.get('inspection', {}), an alias into data
inspection == DictGet(data, "inspection", EmptyDict)

\* field_walk without the isinstance test of each step
RECURSIVE field_walk_unguarded(_, _, _)
field_walk_unguarded(obj, field_path, default) ==
    IF field_path = <<>>
    THEN IF obj.t # "None" /\ ~(obj.t = "str" /\ obj.v = "") THEN StrOf(obj) ELSE default
    ELSE LET nxt == DictGet(obj, Head(field_path), PyNone)
         IN  IF Raised(nxt) THEN nxt
             ELSE IF nxt.t = "None" THEN default
             ELSE field_walk_unguarded(nxt, Tail(field_path), default)

RECURSIVE field_walk(_, _, _)
field_walk(obj, field_path, default) ==
    IF field_path = <<>>
    THEN IF obj.t # "None" /\ ~(obj.t = "str" /\ obj.v = "") THEN StrOf(obj) ELSE default
    ELSE IF obj.t = "dict"
         THEN LET nxt == DictGet(obj, Head(field_path), PyNone)
              IN  IF nxt.t = "None" THEN default
                  ELSE field_walk(nxt, Tail(field_path), default)
         ELSE default

get_field_value(field_path, default) == field_walk(inspection, field_path, default)

\* the calendar date of a day number counted from 1970-01-01, as
\* datetime.fromtimestamp computes it (proleptic Gregorian calendar)
CivilDate(days) ==
    LET z == days + 719468
        era == z \div 146097
        doe == z - era * 146097
        yoe == (doe - doe \div 1460 + doe \div 36524 - doe \div 146096) \div 365
        doy == doe - (365 * yoe + yoe \div 4 - yoe \div 100)
        mp == (5 * doy + 2) \div 153
        m == IF mp < 10 THEN mp + 3 ELSE mp - 9
    IN  [year |-> yoe + era * 400 + (IF m <= 2 THEN 1 ELSE 0),
         month |-> m,
         day |-> doy - (153 * mp + 2) \div 5 + 1]

Pad2(n) == IF n < 10 THEN "0" \o NatText(n) ELSE NatText(n)
Pad4(n) == IF n < 1000 THEN "0" \o (IF n < 100 THEN "0" \o Pad2(n) ELSE NatText(n)) ELSE NatText(n)

\* dt.strftime("%m/%d/%Y")
StrfTime(d) == Pad2(d.month) \o "/" \o Pad2(d.day) \o "/" \o Pad4(d.year)

\* datetime supports the years 1 .. 9999
MinDay == -719162
MaxDay == 2932896

\* datetime.fromtimestamp(timestamp / 1000) in a local time zone tz hours east
\* of UTC: TypeError for what cannot be divided, ValueError / OverflowError
\* for what no datetime holds
FromTimestampMs(timestamp, tz) ==
    IF timestamp.t \notin {"int", "bool", "float"} THEN PyRaise("TypeError")
    ELSE IF timestamp.t = "float" THEN PyRaise("ValueError")
    ELSE LET p == IF timestamp.t = "bool" THEN <<0, IF timestamp.v THEN 1 ELSE 0>>
                  ELSE timestamp.v
             days == p[1] + (p[2] + tz * 3600 * 1000) \div Limb
         IN  IF days < MinDay \/ days > MaxDay THEN PyRaise("ValueError")
             ELSE [t |-> "datetime", v |-> CivilDate(days)]

\* timestamp == 0
IsZero(x) ==
    \/ x.t = "int" /\ x.v = <<0, 0>>
    \/ x.t = "bool" /\ ~x.v

\* format_timestamp without the test for a zero or missing timestamp
format_timestamp_unchecked(timestamp, tz) ==
    LET dt == FromTimestampMs(timestamp, tz)
    IN  IF Raised(dt) THEN PyStr(SENTINEL) ELSE PyStr(StrfTime(dt.v))

format_timestamp(timestamp, tz) ==
    IF ~Truthy(timestamp) \/ IsZero(timestamp)
    THEN PyStr(SENTINEL)
    ELSE LET dt == FromTimestampMs(timestamp, tz)
         IN  IF Raised(dt) THEN PyStr(SENTINEL) ELSE PyStr(StrfTime(dt.v))

\* the first exception among the values q, or the value ok
FirstRaise(q, ok) ==
    IF \E i \in 1..Len(q) : Raised(q[i])
    THEN q[CHOOSE i \in 1..Len(q) : Raised(q[i]) /\ \A j \in 1..(i - 1) : ~Raised(q[j])]
    ELSE ok

\* the fields literal with the sponsor taken from the inspector's name
header_fields_sponsor(name_of_client, date, full_address, name_of_inspector) ==
    PyDict(("Name of Client" :> name_of_client)
        @@ ("Date of Inspection" :> date)
        @@ ("Address of Inspected Property" :> full_address)
        @@ ("Name of Inspector" :> name_of_inspector)
        @@ ("TREC License" :> PyStr(SENTINEL))
        @@ ("Name of Sponsor if applicable" :> name_of_inspector)
        @@ ("TREC License_2" :> PyStr(SENTINEL)))

\* fields = {...}
header_fields(name_of_client, date, full_address, name_of_inspector) ==
    PyDict(("Name of Client" :> name_of_client)
        @@ ("Date of Inspection" :> date)
        @@ ("Address of Inspected Property" :> full_address)
        @@ ("Name of Inspector" :> name_of_inspector)
        @@ ("TREC License" :> PyStr(SENTINEL))
        @@ ("Name of Sponsor if applicable" :> PyStr(SENTINEL))
        @@ ("TREC License_2" :> PyStr(SENTINEL)))

get_header_fields(tz) ==
    LET client_info == DictGet(inspection, "clientInfo", EmptyDict)
        inspector == DictGet(inspection, "inspector", EmptyDict)
        address == DictGet(inspection, "address", EmptyDict)
        schedule == DictGet(inspection, "schedule", EmptyDict)
        begin == FirstRaise(<<client_info, inspector, address, schedule>>, PyNone)
        name_of_client == DictGet(client_info, "name", PyStr(SENTINEL))
        date == DictGet(schedule, "date", PyNone)
        full_address == DictGet(address, "fullAddress", PyStr(SENTINEL))
        name_of_inspector == DictGet(inspector, "name", PyStr(SENTINEL))
    IN  IF Raised(begin) THEN begin
        ELSE FirstRaise(<<name_of_client, date, full_address, name_of_inspector>>,
                header_fields(name_of_client, format_timestamp(date, tz),
                              full_address, name_of_inspector))

\* lambda x: x.get('order', 0)
OrderKey(x) == DictGet(x, "order", PyInt(0))

\* a < b for two numbers (an int or a bool)
NumLess(a, b) ==
    LET p == IF a.t = "bool" THEN <<0, IF a.v THEN 1 ELSE 0>> ELSE a.v
        q == IF b.t = "bool" THEN <<0, IF b.v THEN 1 ELSE 0>> ELSE b.v
    IN  p[1] < q[1] \/ (p[1] = q[1] /\ p[2] < q[2])

\* InsertByOrder placing x before the elements of equal key
InsertBeforeEqual(q, x) ==
    LET after == {i \in 1..Len(q) : ~NumLess(OrderKey(q[i]), OrderKey(x))}
        at == IF after = {} THEN Len(q) + 1
              ELSE CHOOSE i \in after : \A j \in after : i <= j
    IN  SubSeq(q, 1, at - 1) \o <<x>> \o SubSeq(q, at, Len(q))

\* one step of list.sort's binary insertion: x goes after every element
\* whose key is not greater than its own
InsertByOrder(q, x) ==
    LET after == {i \in 1..Len(q) : NumLess(OrderKey(x), OrderKey(q[i]))}
        at == IF after = {} THEN Len(q) + 1
              ELSE CHOOSE i \in after : \A j \in after : i <= j
    IN  SubSeq(q, 1, at - 1) \o <<x>> \o SubSeq(q, at, Len(q))

RECURSIVE StableSort(_)
StableSort(q) ==
    IF q = <<>> THEN <<>>
    ELSE CHOOSE out \in {InsertByOrder(rest, q[Len(q)]) :
            rest \in {StableSort(front) : front \in {SubSeq(q, 1, Len(q) - 1)}}} : TRUE

\* sorted(lst, key=lambda x: x.get('order', 0)). The keys are computed first
\* (AttributeError on an element that is no dict), then compared: null keys,
\* or a null key next to a number, are a TypeError as soon as two elements
\* are compared. The documents of the model hold int, null or absent orders.
sorted_by_order(lst) ==
    IF Raised(lst) THEN lst
    ELSE IF lst.t \in {"None", "int", "bool", "float"} THEN PyRaise("TypeError")
    ELSE IF lst.t \in {"str", "dict"}
         THEN IF Truthy(lst) THEN PyRaise("AttributeError") ELSE PyList(<<>>)
    ELSE LET keys == [i \in 1..Len(lst.v) |-> OrderKey(lst.v[i])]
         IN  IF \E i \in 1..Len(keys) : Raised(keys[i]) THEN PyRaise("AttributeError")
             ELSE IF Len(keys) >= 2 /\ \E i \in 1..Len(keys) : keys[i].t \notin {"int", "bool"}
                  THEN PyRaise("TypeError")
             ELSE PyList(StableSort(lst.v))

get_sections == sorted_by_order(DictGet(inspection, "sections", PyList(<<>>)))

get_line_items_for_section(section) ==
    sorted_by_order(DictGet(section, "lineItems", PyList(<<>>)))

\* get_comments_for_line_item without the sort: the comments as the file lists them
get_comments_for_line_item_unsorted(line_item) ==
    DictGet(line_item, "comments", PyList(<<>>))

get_comments_for_line_item(line_item) ==
    sorted_by_order(DictGet(line_item, "comments", PyList(<<>>)))

\* STATUS_MAP with the labels of NI and NP exchanged
STATUS_MAP_swapped ==
    ("I" :> "Inspected") @@ ("NI" :> "Not Present")
        @@ ("NP" :> "Not Inspected") @@ ("D" :> "Deficient")

STATUS_MAP ==
    ("I" :> "Inspected") @@ ("NI" :> "Not Inspected")
        @@ ("NP" :> "Not Present") @@ ("D" :> "Deficient")

\* lists and dicts cannot be dict keys
Hashable(x) == x.t \notin {"list", "dict"}

\* get_status_label with STATUS_MAP.get(status_code, sentinel)
get_status_label_sentinel(status_code) ==
    IF ~Truthy(status_code) THEN PyStr(SENTINEL)
    ELSE IF ~Hashable(status_code) THEN PyRaise("TypeError")
    ELSE IF status_code.t = "str" /\ status_code.v \in DOMAIN STATUS_MAP
         THEN PyStr(STATUS_MAP[status_code.v])
    ELSE PyStr(SENTINEL)

\* get_status_label with STATUS_MAP.get(status_code), no default
get_status_label_none(status_code) ==
    IF ~Truthy(status_code) THEN PyStr(SENTINEL)
    ELSE IF ~Hashable(status_code) THEN PyRaise("TypeError")
    ELSE IF status_code.t = "str" /\ status_code.v \in DOMAIN STATUS_MAP
         THEN PyStr(STATUS_MAP[status_code.v])
    ELSE PyNone

get_status_label(status_code) ==
    IF ~Truthy(status_code) THEN PyStr(SENTINEL)
    ELSE IF ~Hashable(status_code) THEN PyRaise("TypeError")
    ELSE IF status_code.t = "str" /\ status_code.v \in DOMAIN STATUS_MAP
         THEN PyStr(STATUS_MAP[status_code.v])
    ELSE status_code

\* get_checkbox_states with a plain else in place of elif status_code is None
get_checkbox_states_else(status_code) ==
    LET states == [k \in {"I", "NI", "NP", "D"} |-> PyBool(FALSE)]
    IN  IF Truthy(status_code) /\ ~Hashable(status_code) THEN PyRaise("TypeError")
        ELSE IF Truthy(status_code) /\ status_code.t = "str" /\ status_code.v \in DOMAIN states
             THEN PyDict([states EXCEPT ![status_code.v] = PyBool(TRUE)])
        ELSE PyDict([states EXCEPT !["I"] = PyBool(TRUE)])

get_checkbox_states(status_code) ==
    LET states == [k \in {"I", "NI", "NP", "D"} |-> PyBool(FALSE)]
    IN  IF Truthy(status_code)
        THEN IF ~Hashable(status_code) THEN PyRaise("TypeError")
             ELSE IF status_code.t = "str" /\ status_code.v \in DOMAIN states
                  THEN PyDict([states EXCEPT ![status_code.v] = PyBool(TRUE)])
             ELSE PyDict(states)
        ELSE IF status_code.t = "None"
             THEN PyDict([states EXCEPT !["I"] = PyBool(TRUE)])
        ELSE PyDict(states)

-----------------------------------------------------------------------------
(* TRECFieldMapper *)

\* STATUS_TO_CHECKBOX_INDEX with the places of NP and D exchanged
STATUS_TO_CHECKBOX_INDEX_swapped == ("I" :> 0) @@ ("NI" :> 1) @@ ("NP" :> 3) @@ ("D" :> 2)

STATUS_TO_CHECKBOX_INDEX == ("I" :> 0) @@ ("NI" :> 1) @@ ("NP" :> 2) @@ ("D" :> 3)

\* the widget types of the form: a checkbox and a text field
CHECKBOX == 2
TEXT == 7

Widget(name, type, value) == [name |-> name, type |-> type, value |-> value]

\* for page in doc: for widget in page.widgets(): the places of the widgets
\* named name, and the first of them in document order
WidgetsNamed(doc, name) ==
    {pos \in UNION {{<<p, i>> : i \in 1..Len(doc[p])} : p \in 1..Len(doc)} :
        doc[pos[1]][pos[2]].name = name}

FirstOf(places) ==
    CHOOSE pos \in places : \A o \in places :
        pos[1] < o[1] \/ (pos[1] = o[1] /\ pos[2] <= o[2])

\* fill_checkbox_for_status without the default: an absent or unknown status
\* marks nothing
fill_checkbox_for_status_strict(doc, checkbox_group, status, accepts) ==
    IF Truthy(status) /\ ~Hashable(status)
    THEN [doc |-> doc, ret |-> PyRaise("TypeError")]
    ELSE IF ~(status.t = "str" /\ status.v \in DOMAIN STATUS_TO_CHECKBOX_INDEX)
    THEN [doc |-> doc, ret |-> PyInt(0)]
    ELSE LET checkbox_idx == STATUS_TO_CHECKBOX_INDEX[status.v]
             places == WidgetsNamed(doc, checkbox_group[checkbox_idx + 1])
         IN  IF checkbox_idx >= Len(checkbox_group) \/ places = {} \/ ~accepts
             THEN [doc |-> doc, ret |-> PyInt(0)]
             ELSE LET pos == FirstOf(places)
                  IN  [doc |-> [doc EXCEPT ![pos[1]][pos[2]].value = PyBool(TRUE)],
                       ret |-> PyInt(1)]

\* fill_checkbox_for_status with the range test written > for >=
fill_checkbox_for_status_gt(doc, checkbox_group, status, accepts) ==
    IF Truthy(status) /\ ~Hashable(status)
    THEN [doc |-> doc, ret |-> PyRaise("TypeError")]
    ELSE LET code == IF ~Truthy(status)
                        \/ ~(status.t = "str" /\ status.v \in DOMAIN STATUS_TO_CHECKBOX_INDEX)
                     THEN "I" ELSE status.v
             checkbox_idx == STATUS_TO_CHECKBOX_INDEX[code]
             places == WidgetsNamed(doc, checkbox_group[checkbox_idx + 1])
         IN  IF checkbox_idx > Len(checkbox_group) THEN [doc |-> doc, ret |-> PyInt(0)]
             ELSE IF checkbox_idx = Len(checkbox_group)
                  THEN [doc |-> doc, ret |-> PyRaise("IndexError")]
             ELSE IF places = {} THEN [doc |-> doc, ret |-> PyInt(0)]
             ELSE IF ~accepts THEN [doc |-> doc, ret |-> PyInt(0)]
             ELSE LET pos == FirstOf(places)
                  IN  [doc |-> [doc EXCEPT ![pos[1]][pos[2]].value = PyBool(TRUE)],
                       ret |-> PyInt(1)]

\* fill_checkbox_for_status(doc, checkbox_group, status); accepts tells whether
\* the form takes the write (widget.update() returns) or rejects it (raises).
\* The result is the document after the call and the value returned.
fill_checkbox_for_status(doc, checkbox_group, status, accepts) ==
    IF Truthy(status) /\ ~Hashable(status)
    THEN [doc |-> doc, ret |-> PyRaise("TypeError")]
    ELSE LET code == IF ~Truthy(status)
                        \/ ~(status.t = "str" /\ status.v \in DOMAIN STATUS_TO_CHECKBOX_INDEX)
                     THEN "I" ELSE status.v
             checkbox_idx == STATUS_TO_CHECKBOX_INDEX[code]
             places == WidgetsNamed(doc, checkbox_group[checkbox_idx + 1])
         IN  IF checkbox_idx >= Len(checkbox_group) THEN [doc |-> doc, ret |-> PyInt(0)]
             ELSE IF places = {} THEN [doc |-> doc, ret |-> PyInt(0)]
             ELSE IF ~accepts THEN [doc |-> doc, ret |-> PyInt(0)]
             ELSE LET pos == FirstOf(places)
                  IN  [doc |-> [doc EXCEPT ![pos[1]][pos[2]].value = PyBool(TRUE)],
                       ret |-> PyInt(1)]

\* self.field_info['by_page']: the pages of the template, whose widgets keep
\* their names and types in every document opened from it. Page page_num of
\* the code is page page_num + 1 of the sequence.
HasPage(doc, page_num) == page_num + 1 \in 1..Len(doc)

NamesOfType(doc, page_num, type) ==
    LET page == doc[page_num + 1]
        RECURSIVE pick(_)
        pick(i) ==
            IF i > Len(page) THEN <<>>
            ELSE IF page[i].type = type THEN <<page[i].name>> \o pick(i + 1)
            ELSE pick(i + 1)
    IN  pick(1)

\* get_checkbox_groups with the incomplete last group kept
get_checkbox_groups_ragged(doc, page_num) ==
    IF ~HasPage(doc, page_num) THEN <<>>
    ELSE LET checkbox_names == NamesOfType(doc, page_num, CHECKBOX)
         IN  [g \in 1..((Len(checkbox_names) + 3) \div 4) |->
                SubSeq(checkbox_names, 4 * g - 3,
                       IF 4 * g < Len(checkbox_names) THEN 4 * g ELSE Len(checkbox_names))]

get_checkbox_groups(doc, page_num) ==
    IF ~HasPage(doc, page_num) THEN <<>>
    ELSE LET checkbox_names == NamesOfType(doc, page_num, CHECKBOX)
         IN  [g \in 1..(Len(checkbox_names) \div 4) |->
                SubSeq(checkbox_names, 4 * g - 3, 4 * g)]

get_text_fields_for_page(doc, page_num) ==
    IF ~HasPage(doc, page_num) THEN <<>> ELSE NamesOfType(doc, page_num, TEXT)

\* fill_text_field(doc, field_name, value): the document after the call and
\* the value returned; accepts as in fill_checkbox_for_status
fill_text_field(doc, field_name, value, accepts) ==
    LET places == {pos \in WidgetsNamed(doc, field_name) : doc[pos[1]][pos[2]].type = TEXT}
    IN  IF places = {} \/ ~accepts THEN [doc |-> doc, ret |-> PyBool(FALSE)]
        ELSE LET pos == FirstOf(places)
             IN  [doc |-> [doc EXCEPT ![pos[1]][pos[2]].value = StrOf(value)],
                  ret |-> PyBool(TRUE)]

\* the longest comment text written to a form field
TEXT_LIMIT == 200

\* x[:n] of a string or a list, TypeError for what cannot be sliced
SliceTo(x, n) ==
    IF x.t \in {"str", "list"}
    THEN [t |-> x.t, v |-> SubSeq(x.v, 1, IF Len(x.v) < n THEN Len(x.v) ELSE n)]
    ELSE PyRaise("TypeError")

\* comments[0]
FirstElement(x) ==
    CASE x.t = "list" -> x.v[1]
      [] x.t = "str" -> PyStr(SubSeq(x.v, 1, 1))
      [] x.t = "dict" -> PyRaise("KeyError")
      [] OTHER -> PyRaise("TypeError")

\* slot_text taking the first comment that has a text, not comments[0]
slot_text_nonempty(line_item, limit) ==
    LET comments == DictGet(line_item, "comments", PyList(<<>>))
        with_text == IF comments.t = "list"
                     THEN {k \in DOMAIN comments.v :
                            Truthy(DictGet(comments.v[k], "text", PyNone))}
                     ELSE {}
    IN  IF Raised(comments) THEN comments
        ELSE IF with_text = {} THEN PyNone
        ELSE SliceTo(DictGet(comments.v[CHOOSE k \in with_text : \A m \in with_text : k <= m],
                             "text", PyNone), limit)

\* the text that slot i writes for line_item: PyNone when it writes none
slot_text(line_item, limit) ==
    LET comments == DictGet(line_item, "comments", PyList(<<>>))
    IN  IF Raised(comments) THEN comments
        ELSE IF ~Truthy(comments) THEN PyNone
        ELSE LET first == FirstElement(comments)
                 text == DictGet(first, "text", PyNone)
             IN  IF Raised(first) THEN first
                 ELSE IF Raised(text) THEN text
                 ELSE IF ~Truthy(text) THEN PyNone
                 ELSE SliceTo(text, limit)

\* a tuple returned by a method
PyTuple(q) == [t |-> "tuple", v |-> q]
\* the number an int below Limb * Limb stands for
IntOf(x) == x.v[1] * Limb + x.v[2]

\* the loop of fill_line_items_on_page over enumerate(groups), with the groups
\* and the text fields of the page given. refused holds the writes the form
\* raises on, as <<page_num, "checkbox" or "text", i>>. The document is
\* changed in place, so a call that raises leaves the writes made before it.
page_slots(doc, page_num, checkbox_groups, text_fields, line_items, start_idx, refused) ==
    LET RECURSIVE slots(_, _, _, _)
        slots(d, i, checkboxes_filled, items_processed) ==
            IF i >= Len(checkbox_groups) \/ start_idx + i >= Len(line_items)
            THEN [doc |-> d,
                  ret |-> PyTuple(<<PyInt(checkboxes_filled), PyInt(items_processed)>>)]
            ELSE LET line_item == line_items[start_idx + i + 1]
                     status == DictGet(line_item, "inspectionStatus", PyStr("I"))
                     text == IF i < Len(text_fields) THEN slot_text(line_item, TEXT_LIMIT)
                             ELSE PyNone
                     then(box) ==
                        IF Raised(box.ret) THEN box
                        ELSE IF Raised(text) THEN [doc |-> box.doc, ret |-> text]
                        ELSE CHOOSE out \in
                                {slots(after, i + 1, filled, items_processed + 1) :
                                    after \in {IF text.t = "None" THEN box.doc
                                               ELSE fill_text_field(box.doc, text_fields[i + 1], text,
                                                        <<page_num, "text", i>> \notin refused).doc},
                                    filled \in {checkboxes_filled + IntOf(box.ret)}} : TRUE
                 IN  IF Raised(status) THEN [doc |-> d, ret |-> status]
                     ELSE CHOOSE out \in
                            {then(box) : box \in {fill_checkbox_for_status(d, checkbox_groups[i + 1],
                                status, <<page_num, "checkbox", i>> \notin refused)}} : TRUE
    IN  slots(doc, 0, 0, 0)

\* fill_line_items_on_page(doc, page_num, line_items, start_idx), for
\* start_idx >= 0: the document after the call and the tuple
\* (checkboxes_filled, items_processed) returned, or the exception raised
fill_line_items_on_page(doc, page_num, line_items, start_idx, refused) ==
    page_slots(doc, page_num, get_checkbox_groups(doc, page_num),
               get_text_fields_for_page(doc, page_num), line_items, start_idx, refused)

-----------------------------------------------------------------------------
(* DataMapper: the media of all comments and the summary *)

\* the lists of a sequence of Python lists, joined
RECURSIVE Flatten(_)
Flatten(lists) == IF lists = <<>> THEN <<>> ELSE lists[1].v \o Flatten(Tail(lists))

get_videos_for_comment(comment) == DictGet(comment, "videos", PyList(<<>>))

get_photos_for_comment(comment) == DictGet(comment, "photos", PyList(<<>>))

\* the longest comment excerpt kept with a photo or a video
EXCERPT_LIMIT == 100

\* media_entry with the two names exchanged
media_entry_swapped(media, section, line_item, comment) ==
    LET comment_text == SliceTo(DictGet(comment, "text", PyStr("")), EXCERPT_LIMIT)
    IN  IF media.t = "list" THEN PyRaise("TypeError")
        ELSE IF media.t # "dict" THEN PyRaise("AttributeError")
        ELSE IF Raised(comment_text) THEN comment_text
        ELSE PyDict(("section_name" :> DictGet(line_item, "name", PyStr("Unknown")))
                @@ ("line_item_name" :> DictGet(section, "name", PyStr("Unknown")))
                @@ ("comment_text" :> comment_text)
                @@ media.v)

\* photo_with_context: media.copy() with the three keys set. Only a dict can
\* be copied and take a key; the record in the tree is not written to.
media_entry(media, section, line_item, comment) ==
    LET comment_text == SliceTo(DictGet(comment, "text", PyStr("")), EXCERPT_LIMIT)
    IN  IF media.t = "list" THEN PyRaise("TypeError")
        ELSE IF media.t # "dict" THEN PyRaise("AttributeError")
        ELSE IF Raised(comment_text) THEN comment_text
        ELSE PyDict(("section_name" :> DictGet(section, "name", PyStr("Unknown")))
                @@ ("line_item_name" :> DictGet(line_item, "name", PyStr("Unknown")))
                @@ ("comment_text" :> comment_text)
                @@ media.v)

\* for media in medias: ... append(media_with_context). A number or null
\* cannot be iterated; the elements of a non-empty string or dict are strings,
\* which have no copy()
media_entries(medias, section, line_item, comment) ==
    IF Raised(medias) THEN medias
    ELSE IF medias.t = "list"
         THEN LET made == [i \in 1..Len(medias.v) |->
                            media_entry(medias.v[i], section, line_item, comment)]
              IN  FirstRaise(made, PyList(made))
    ELSE IF medias.t \in {"str", "dict"}
         THEN IF Truthy(medias) THEN PyRaise("AttributeError") ELSE PyList(<<>>)
    ELSE PyRaise("TypeError")

\* the walk of get_all_media and of get_summary_stats over the sorted
\* sections, line items and comments: of_comment gives the list gathered at
\* one comment, the lists are joined in the order of the walk, and the first
\* exception ends the walk
media_walk(of_comment(_, _, _)) ==
    LET joined(got) == FirstRaise(got, PyList(Flatten(got)))
        of_item(section, line_item) ==
            CHOOSE out \in
                {IF Raised(comments) THEN comments
                 ELSE CHOOSE list \in
                        {joined(got) : got \in {[c \in 1..Len(comments.v) |->
                            of_comment(section, line_item, comments.v[c])]}} : TRUE :
                    comments \in {get_comments_for_line_item(line_item)}} : TRUE
        of_section(section) ==
            CHOOSE out \in
                {IF Raised(line_items) THEN line_items
                 ELSE CHOOSE list \in
                        {joined(got) : got \in {[j \in 1..Len(line_items.v) |->
                            of_item(section, line_items.v[j])]}} : TRUE :
                    line_items \in {get_line_items_for_section(section)}} : TRUE
    IN  CHOOSE out \in
            {IF Raised(sections) THEN sections
             ELSE CHOOSE list \in
                    {joined(got) : got \in {[k \in 1..Len(sections.v) |->
                        of_section(sections.v[k])]}} : TRUE :
                sections \in {get_sections}} : TRUE

\* an element gathered on the walk, with the list it belongs to
Tagged(kind, x) == [kind |-> kind, entry |-> x]
Entries(q, kind) ==
    LET Is(e) == e.kind = kind
        got == SelectSeq(q, Is)
    IN  [i \in 1..Len(got) |-> got[i].entry]

\* get_all_media(): the tuple (all_photos, all_videos) or the exception raised
get_all_media ==
    LET of_comment(section, line_item, comment) ==
            LET photos == media_entries(get_photos_for_comment(comment), section, line_item, comment)
                videos == media_entries(get_videos_for_comment(comment), section, line_item, comment)
            IN  FirstRaise(<<photos, videos>>,
                    PyList([i \in 1..Len(photos.v) |-> Tagged("photo", photos.v[i])]
                        \o [i \in 1..Len(videos.v) |-> Tagged("video", videos.v[i])]))
    IN  CHOOSE out \in
            {IF Raised(walked) THEN walked
             ELSE PyTuple(<<PyList(Entries(walked.v, "photo")),
                            PyList(Entries(walked.v, "video"))>>) :
                walked \in {media_walk(of_comment)}} : TRUE

\* len(x)
PyLen(x) ==
    CASE Raised(x) -> x
      [] x.t \in {"list", "str"} -> PyInt(Len(x.v))
      [] x.t = "dict" -> PyInt(Cardinality(DOMAIN x.v))
      [] OTHER -> PyRaise("TypeError")

\* comment_counts with the two totals exchanged
comment_counts_swapped(comment) ==
    LET photos == PyLen(get_photos_for_comment(comment))
        videos == PyLen(get_videos_for_comment(comment))
    IN  FirstRaise(<<photos, videos>>, PyList(<<Tagged("photo", videos), Tagged("video", photos)>>))

\* what one comment adds to total_photos and to total_videos
comment_counts(comment) ==
    LET photos == PyLen(get_photos_for_comment(comment))
        videos == PyLen(get_videos_for_comment(comment))
    IN  FirstRaise(<<photos, videos>>, PyList(<<Tagged("photo", photos), Tagged("video", videos)>>))

\* status_counter with a closing else: every other status counts as deficient
status_counter_else(line_item) ==
    LET status == DictGet(line_item, "inspectionStatus", PyNone)
    IN  IF status.t # "str" THEN "deficient"
        ELSE CASE status.v = "I" -> "inspected"
               [] status.v = "NI" -> "not_inspected"
               [] status.v = "NP" -> "not_present"
               [] OTHER -> "deficient"

\* status_counter counting a line item without a status as inspected
status_counter_default(line_item) ==
    LET status == DictGet(line_item, "inspectionStatus", PyStr("I"))
    IN  IF status.t # "str" THEN "none"
        ELSE CASE status.v = "I" -> "inspected"
               [] status.v = "NI" -> "not_inspected"
               [] status.v = "NP" -> "not_present"
               [] status.v = "D" -> "deficient"
               [] OTHER -> "none"

\* the counter that the if/elif chain on the status of a line item adds to
status_counter(line_item) ==
    LET status == DictGet(line_item, "inspectionStatus", PyNone)
    IN  IF status.t # "str" THEN "none"
        ELSE CASE status.v = "I" -> "inspected"
               [] status.v = "NI" -> "not_inspected"
               [] status.v = "NP" -> "not_present"
               [] status.v = "D" -> "deficient"
               [] OTHER -> "none"

RECURSIVE SumOf(_)
SumOf(counts) == IF counts = <<>> THEN 0 ELSE IntOf(counts[1]) + SumOf(Tail(counts))

\* get_summary_stats(): the stats dict or the exception raised
get_summary_stats ==
    LET sections == get_sections
        of_comment(section, line_item, comment) == comment_counts(comment)
        walked == media_walk(of_comment)
        line_items == Flatten([k \in 1..Len(sections.v) |->
                                get_line_items_for_section(sections.v[k])])
        counted(counter) ==
            PyInt(Cardinality({j \in 1..Len(line_items) : status_counter(line_items[j]) = counter}))
    IN  IF Raised(walked) THEN walked
        ELSE PyDict(("total_sections" :> PyInt(Len(sections.v)))
                @@ ("total_line_items" :> PyInt(Len(line_items)))
                @@ ("inspected" :> counted("inspected"))
                @@ ("not_inspected" :> counted("not_inspected"))
                @@ ("not_present" :> counted("not_present"))
                @@ ("deficient" :> counted("deficient"))
                @@ ("total_photos" :> PyInt(SumOf(Entries(walked.v, "photo"))))
                @@ ("total_videos" :> PyInt(SumOf(Entries(walked.v, "video")))))

-----------------------------------------------------------------------------
(* TRECReportGenerator: the line items laid over the form pages *)

\* the dict that _fill_inspection_checkboxes keeps of one line item
line_item_entry(section, item) ==
    FirstRaise(<<DictGet(section, "name", PyStr("Unknown")), DictGet(item, "name", PyStr("Unknown"))>>,
        PyDict(("section" :> DictGet(section, "name", PyStr("Unknown")))
            @@ ("name" :> DictGet(item, "name", PyStr("Unknown")))
            @@ ("inspectionStatus" :> DictGet(item, "inspectionStatus", PyNone))
            @@ ("comments" :> DictGet(item, "comments", PyList(<<>>)))))

\* all_line_items: the line items of every section, sections and items as
\* get_sections and get_line_items_for_section order them
all_line_items ==
    LET sections == get_sections
        entries(section) ==
            LET line_items == get_line_items_for_section(section)
            IN  IF Raised(line_items) THEN line_items
                ELSE LET made == [j \in 1..Len(line_items.v) |->
                                    line_item_entry(section, line_items.v[j])]
                     IN  FirstRaise(made, PyList(made))
    IN  IF Raised(sections) THEN sections
        ELSE LET per_section == [k \in 1..Len(sections.v) |-> entries(sections.v[k])]
             IN  FirstRaise(per_section, PyList(Flatten(per_section)))

\* page_mappings with the second page starting one item early
page_mappings_overlap == << <<2, 0, 12>>, <<3, 11, 22>>, <<4, 22, 34>>, <<5, 34, 41>> >>

\* (page_idx, start_idx, end_idx)
page_mappings == << <<2, 0, 12>>, <<3, 12, 22>>, <<4, 22, 34>>, <<5, 34, 41>> >>

\* q[start:end] for 0 <= start <= end
Slice(q, start, end) == SubSeq(q, start + 1, IF end < Len(q) THEN end ELSE Len(q))

\* _fill_inspection_checkboxes letting the items a page had no group for flow
\* on to the next page
fill_inspection_checkboxes_carry(doc, refused) ==
    LET RECURSIVE pages(_, _, _, _, _)
        pages(all, k, d, calls, next) ==
            IF k > Len(page_mappings) THEN [doc |-> d, ret |-> PyNone, calls |-> calls]
            ELSE LET page_idx == page_mappings[k][1]
                     room == page_mappings[k][3] - page_mappings[k][2]
                 IN  CHOOSE out \in
                        {IF Raised(done.ret)
                         THEN [doc |-> done.doc, ret |-> done.ret, calls |-> calls]
                         ELSE pages(all, k + 1, done.doc, calls, next + IntOf(done.ret.v[2])) :
                            done \in {fill_line_items_on_page(d, page_idx,
                                        Slice(all.v, next, next + room), 0, refused)}} : TRUE
    IN  CHOOSE out \in
            {IF Raised(all) THEN [doc |-> doc, ret |-> all, calls |-> <<>>]
             ELSE pages(all, 1, doc, <<>>, 0) : all \in {all_line_items}} : TRUE

\* _fill_inspection_checkboxes(): the document after the call, None or the
\* exception raised, and calls, the (page_idx, items_for_page) of each call
\* made to fill_line_items_on_page, in the order made
fill_inspection_checkboxes(doc, refused) ==
    LET RECURSIVE pages(_, _, _, _)
        pages(all, k, d, calls) ==
            IF k > Len(page_mappings) THEN [doc |-> d, ret |-> PyNone, calls |-> calls]
            ELSE LET page_idx == page_mappings[k][1]
                     then(items_for_page) ==
                        IF items_for_page = <<>> THEN pages(all, k + 1, d, calls)
                        ELSE CHOOSE out \in
                            {IF Raised(done.ret)
                             THEN [doc |-> done.doc, ret |-> done.ret,
                                   calls |-> Append(calls, <<page_idx, items_for_page>>)]
                             ELSE pages(all, k + 1, done.doc,
                                        Append(calls, <<page_idx, items_for_page>>)) :
                                done \in {fill_line_items_on_page(d, page_idx, items_for_page,
                                                                  0, refused)}} : TRUE
                 IN  CHOOSE out \in
                        {then(items_for_page) :
                            items_for_page \in {Slice(all.v, page_mappings[k][2],
                                                      page_mappings[k][3])}} : TRUE
    IN  CHOOSE out \in
            {IF Raised(all) THEN [doc |-> doc, ret |-> all, calls |-> <<>>]
             ELSE pages(all, 1, doc, <<>>) : all \in {all_line_items}} : TRUE

\* the template a document was opened from: its fields with nothing filled in
Blank(doc) ==
    [q \in DOMAIN doc |-> [k \in DOMAIN doc[q] |->
        [doc[q][k] EXCEPT !.value = IF doc[q][k].type = CHECKBOX THEN PyBool(FALSE)
                                    ELSE PyStr("")]]]

-----------------------------------------------------------------------------
(* Inputs: the documents, forms and arguments the operations are tried on *)

MaxPathLen == 2     \* longest field path
MaxLen == 3         \* longest sections / lineItems / comments array
MaxGroupLen == 4    \* longest checkbox group

SeqsUpTo(S, n) == UNION {[1..k -> S] : k \in 0..n}

Doc(fields) == PyDict("inspection" :> PyDict(fields))

SampleComments(n) ==
    PyList([i \in 1..n |-> PyDict(("text" :> PyStr("C" \o Digit[i + 1]))
                                    @@ ("order" :> PyInt(n - i)))])

SampleItem ==
    PyDict(("name" :> PyStr("Shingles")) @@ ("order" :> PyInt(0))
        @@ ("inspectionStatus" :> PyStr("D")) @@ ("comments" :> SampleComments(2)))

SampleSection ==
    PyDict(("name" :> PyStr("Roof")) @@ ("order" :> PyInt(1))
        @@ ("lineItems" :> PyList(<<SampleItem>>)))

SampleSections == PyList(<<SampleSection>>)

\* 1700000000000 ms: 2023-11-14 22:13:20 UTC
SampleDate == PyBig(19675, 80000000)

ClientOpts ==
    {Absent, PyNone, PyStr("n/a"), EmptyDict, PyDict("name" :> PyNone),
     PyDict("name" :> PyStr("Alice")), PyDict("name" :> PyStr(""))}
InspectorOpts == {PyList(<<>>), PyDict("name" :> PyStr("Bob"))}
AddressOpts ==
    {Absent, PyDict("fullAddress" :> PyNone), PyDict("fullAddress" :> PyStr("1 Main St"))}
ScheduleOpts ==
    {Absent, PyInt(5), EmptyDict, PyDict("date" :> PyNone), PyDict("date" :> PyInt(0)),
     PyDict("date" :> SampleDate), PyDict("date" :> PyStr("soon"))}

\* documents whose header entries are missing, null, of the wrong type or right
HeaderDocs ==
    {Doc(Opt("clientInfo", c) @@ Opt("inspector", i) @@ Opt("address", a)
            @@ Opt("schedule", d) @@ ("sections" :> SampleSections)) :
        c \in ClientOpts, i \in InspectorOpts, a \in AddressOpts, d \in ScheduleOpts}
    \cup {PyDict(<<>>), PyDict("inspection" :> PyNone)}

Keys == {"clientInfo", "name", "schedule", "date", "sections"}
Paths == SeqsUpTo(Keys, MaxPathLen)
Defaults == {PyStr(SENTINEL), PyStr("N/A")}

\* 2024-02-29 00:00:00 UTC is day 19782; day 3000000 is past the year 9999
TimestampInputs ==
    {PyNone, PyInt(0), PyInt(1), PyInt(-1), PyInt(Limb - 1), SampleDate, PyBig(19782, 0),
     PyBig(3000000, 0), PyStr(""), PyStr("11/14/2023"), PyBool(FALSE), PyBool(TRUE),
     PyFloat("inf"), PyList(<<>>), PyList(<<SampleDate>>), EmptyDict}

\* the local time zone of the process, in hours east of UTC
TzOffsets == {-5, 0, 5}

\* the blank template: a header page, a page of checkboxes with a text field,
\* and a page too short for a checkbox group
TemplateForm ==
    << <<Widget("Name of Client", TEXT, PyStr("")),
         Widget("Date of Inspection", TEXT, PyStr(""))>>,
       <<Widget("cb1", CHECKBOX, PyBool(FALSE)), Widget("cb2", CHECKBOX, PyBool(FALSE)),
         Widget("cb3", CHECKBOX, PyBool(FALSE)), Widget("cb4", CHECKBOX, PyBool(FALSE)),
         Widget("txt1", TEXT, PyStr(""))>>,
       <<Widget("cb5", CHECKBOX, PyBool(FALSE)), Widget("cb6", CHECKBOX, PyBool(FALSE))>> >>

NoCall == [op |-> "none", args |-> <<>>, ret |-> PyNone]

\* a new ImageHandler has downloaded nothing
NoImages == <<>>

\* the two files a run reads
InputFiles == {"inspection.json", "TREC_Template_Blank.pdf"}

Called(op, args, ret) == [op |-> op, args |-> args, ret |-> ret]

-----------------------------------------------------------------------------
(* What the calls do to the loaded tree *)

\* lst.sort(key=...) in the place of sorted(): the list of the tree is put
\* in order, where it can be ordered
kept_by_sort(lst) ==
    LET ordered == sorted_by_order(lst)
    IN  IF Raised(ordered) THEN lst ELSE ordered

\* sorted(lst, key=...) builds the list it returns: lst, a list of the tree,
\* is left as it is
kept_by_sorted(lst) == lst

\* the names of the lists of the tree that the methods hand to sorted()
SECTIONS == "sections"
ITEMS == "lineItems"
COMMENTS == "comments"

\* a line item after its comments were handed to sorted()
comments_handed(line_item, handed) ==
    IF COMMENTS \in handed /\ line_item.t = "dict" /\ COMMENTS \in DOMAIN line_item.v
    THEN [line_item EXCEPT !.v[COMMENTS] = kept_by_sorted(@)]
    ELSE line_item

\* a section after its line items, and their comments, were handed to sorted()
items_handed(section, handed) ==
    IF section.t = "dict" /\ ITEMS \in DOMAIN section.v
    THEN [section EXCEPT !.v[ITEMS] =
            LET kept == IF ITEMS \in handed THEN kept_by_sorted(@) ELSE @
            IN  IF kept.t = "list"
                THEN PyList([k \in 1..Len(kept.v) |-> comments_handed(kept.v[k], handed)])
                ELSE kept]
    ELSE section

\* self.data after a call that handed the lists named in handed to sorted().
\* Nothing else in a method of the DataMapper or a step of the report could
\* write to the tree: the methods read it with get, and get_all_media writes
\* the context of a photo or a video into a copy() of its dict.
data_after(handed, tree) ==
    IF handed = {} \/ tree.t # "dict" \/ "inspection" \notin DOMAIN tree.v THEN tree
    ELSE IF tree.v["inspection"].t # "dict" \/ SECTIONS \notin DOMAIN tree.v["inspection"].v
    THEN tree
    ELSE [tree EXCEPT !.v["inspection"].v[SECTIONS] =
            LET kept == IF SECTIONS \in handed THEN kept_by_sorted(@) ELSE @
            IN  IF kept.t = "list"
                THEN PyList([k \in 1..Len(kept.v) |-> items_handed(kept.v[k], handed)])
                ELSE kept]

-----------------------------------------------------------------------------
(* The DataMapper's header and field lookups *)

Init ==
    /\ data \in HeaderDocs
    /\ form = TemplateForm
    /\ call = NoCall
    /\ cache = NoImages
    /\ files = InputFiles
    /\ trace = <<>>

\* the caller takes the result of the last call; the next call starts from here
Return ==
    /\ call.op # "none"
    /\ call' = NoCall
    /\ UNCHANGED <<data, form, cache, files, trace>>

GetFieldValue ==
    \E field_path \in Paths, default \in Defaults :
        /\ call.op = "none"
        /\ call' = Called("get_field_value", <<field_path, default>>,
                          get_field_value(field_path, default))
        /\ UNCHANGED <<data, form, cache, files, trace>>

FormatTimestamp ==
    \E timestamp \in TimestampInputs, tz \in TzOffsets :
        /\ call.op = "none"
        /\ call' = Called("format_timestamp", <<timestamp, tz>>,
                          format_timestamp(timestamp, tz))
        /\ UNCHANGED <<data, form, cache, files, trace>>

GetHeaderFields ==
    \E tz \in TzOffsets :
        /\ call.op = "none"
        /\ call' = Called("get_header_fields", <<tz>>, get_header_fields(tz))
        /\ data' = data_after({}, data)
        /\ UNCHANGED <<form, cache, files, trace>>

Next == GetFieldValue \/ FormatTimestamp \/ GetHeaderFields \/ Return

Spec == Init /\ [][Next]_vars

-----------------------------------------------------------------------------
(* Properties of the header and field lookups *)

Same(a, b) == a.t = b.t /\ a.v = b.v

Missing == [t |-> "missing", v |-> "missing"]

\* the node a path of keys leads to, Missing when a step has no mapping to
\* look in or the mapping has no such key
RECURSIVE ValueAt(_, _)
ValueAt(obj, path) ==
    IF path = <<>> THEN obj
    ELSE IF obj.t = "dict" /\ Head(path) \in DOMAIN obj.v
         THEN ValueAt(obj.v[Head(path)], Tail(path))
    ELSE Missing

\* C1: get_field_value never raises; it returns the default when a step of the
\* path meets a missing key, a null or a node that is no mapping, and when the
\* final value is null or the empty string; otherwise it returns the string
\* form of the final value.
C1_FieldValue ==
    call.op = "get_field_value" =>
        LET final == ValueAt(inspection, call.args[1])
            default == call.args[2]
        IN  /\ ~Raised(call.ret)
            /\ Same(call.ret,
                    IF final.t \in {"missing", "None"} \/ (final.t = "str" /\ final.v = "")
                    THEN default ELSE StrOf(final))

\* a two-step path whose first step is a string, not a mapping: the default
C1_Witness ==
    /\ call.op = "get_field_value"
    /\ call.args[1] = <<"clientInfo", "name">>
    /\ ValueAt(inspection, <<"clientInfo">>).t = "str"
    /\ Same(call.ret, PyStr("N/A"))

\* the header entry read through container and leaf cannot be found
LookupFails(container, leaf) ==
    ValueAt(inspection, <<container, leaf>>).t \in {"missing", "None"}

FieldIsSentinel(ret, field) == Same(ret.v[field], PyStr(SENTINEL))

\* C2: get_header_fields returns without raising for every document, and a
\* header entry whose lookup fails (its container missing, null or no mapping,
\* or its value null) is the sentinel string.
C2_HeaderNeverRaises ==
    call.op = "get_header_fields" =>
        /\ ~Raised(call.ret)
        /\ LookupFails("clientInfo", "name") => FieldIsSentinel(call.ret, "Name of Client")
        /\ LookupFails("inspector", "name") => FieldIsSentinel(call.ret, "Name of Inspector")
        /\ LookupFails("address", "fullAddress") =>
                FieldIsSentinel(call.ret, "Address of Inspected Property")
        /\ LookupFails("schedule", "date") => FieldIsSentinel(call.ret, "Date of Inspection")

\* the dates the epoch falls on, west and east of Greenwich
EpochDates == {"12/31/1969", "01/01/1970"}

\* C3: format_timestamp never raises; it returns the sentinel string for 0, for
\* None and for every value no date can be made of, and never the epoch date
\* for 0.
C3_TimestampSentinel ==
    call.op = "format_timestamp" =>
        LET timestamp == call.args[1]
            tz == call.args[2]
        IN  /\ call.ret.t = "str"
            /\ (timestamp.t = "None" \/ Same(timestamp, PyInt(0))
                    \/ Raised(FromTimestampMs(timestamp, tz)))
                => call.ret.v = SENTINEL
            /\ Same(timestamp, PyInt(0)) => call.ret.v \notin EpochDates

C3_Witness ==
    /\ call.op = "format_timestamp"
    /\ Same(call.args[1], PyInt(0))
    /\ call.ret.v = SENTINEL

HeaderKeys ==
    {"Name of Client", "Date of Inspection", "Address of Inspected Property",
     "Name of Inspector", "TREC License", "Name of Sponsor if applicable",
     "TREC License_2"}

\* C4: every mapping get_header_fields returns has the same seven keys, and
\* 'TREC License', 'Name of Sponsor if applicable' and 'TREC License_2' hold
\* the sentinel string whatever the document contains.
C4_HeaderKeys ==
    (call.op = "get_header_fields" /\ ~Raised(call.ret)) =>
        /\ call.ret.t = "dict"
        /\ DOMAIN call.ret.v = HeaderKeys
        /\ \A k \in {"TREC License", "Name of Sponsor if applicable", "TREC License_2"} :
                FieldIsSentinel(call.ret, k)

\* a document with a client and an inspector: the sourced fields are filled
C4_Witness ==
    /\ call.op = "get_header_fields"
    /\ ~Raised(call.ret)
    /\ Same(call.ret.v["Name of Client"], PyStr("Alice"))
    /\ Same(call.ret.v["Name of Inspector"], PyStr("Bob"))
    /\ call.ret.v["Date of Inspection"].v \in {"11/14/2023", "11/15/2023"}

-----------------------------------------------------------------------------
(* The DataMapper's sorted views and status lookups *)

\* the order of an entity: left out, or a number
OrderOpts == {Absent, PyInt(0), PyInt(1), PyInt(-1)}
Shapes == SeqsUpTo(OrderOpts, MaxLen)

\* the arrays of a document follow one shape: entity i of an array is named
\* after its place i and has the order shape[i]
ShapedComments(shape) ==
    PyList([i \in 1..Len(shape) |->
        PyDict(("text" :> PyStr("C" \o Digit[i + 1])) @@ Opt("order", shape[i]))])

ShapedItems(shape) ==
    PyList([i \in 1..Len(shape) |->
        PyDict(("name" :> PyStr("L" \o Digit[i + 1])) @@ Opt("order", shape[i])
            @@ ("comments" :> ShapedComments(shape)))])

ShapedSections(shape) ==
    PyList([i \in 1..Len(shape) |->
        PyDict(("name" :> PyStr("S" \o Digit[i + 1])) @@ Opt("order", shape[i])
            @@ ("lineItems" :> ShapedItems(shape)))])

\* documents whose arrays are missing, null, hold a non-mapping or a null order
MalformedDocs ==
    {PyDict(<<>>), PyDict("inspection" :> PyNone), Doc(<<>>),
     Doc("sections" :> PyNone), Doc("sections" :> PyList(<<PyStr("Roof")>>)),
     Doc("sections" :> PyList(<<PyDict("name" :> PyStr("S1"))>>)),
     Doc("sections" :> PyList(<<PyDict(("name" :> PyStr("S1")) @@ ("lineItems" :> PyNone))>>)),
     Doc("sections" :> PyList(<<
            PyDict(("name" :> PyStr("S1")) @@ ("order" :> PyNone)
                   @@ ("lineItems" :> PyList(<<PyStr("Shingles"), SampleItem>>))),
            SampleSection>>))}

SectionDocs == {Doc("sections" :> ShapedSections(shape)) : shape \in Shapes} \cup MalformedDocs

\* the elements of a value if it is a list
Elems(x) == IF x.t = "list" THEN {x.v[i] : i \in 1..Len(x.v)} ELSE {}

\* the sections of the document and their line items, as a caller meets them
SectionsOfData == Elems(DictGet(inspection, "sections", PyList(<<>>)))
ItemsOfData == UNION {Elems(DictGet(s, "lineItems", PyList(<<>>))) : s \in SectionsOfData}

StatusInputs ==
    {PyNone, PyStr(""), PyStr("I"), PyStr("NI"), PyStr("NP"), PyStr("D"), PyStr("X"),
     PyStr("i"), PyStr(SENTINEL), PyInt(1), PyList(<<PyStr("D")>>)}

InitSections ==
    /\ data \in SectionDocs
    /\ form = TemplateForm
    /\ call = NoCall
    /\ cache = NoImages
    /\ files = InputFiles
    /\ trace = <<>>

GetSections ==
    /\ call.op = "none"
    /\ call' = Called("get_sections", <<>>, get_sections)
    /\ data' = data_after({SECTIONS}, data)
    /\ UNCHANGED <<form, cache, files, trace>>

GetLineItemsForSection ==
    \E section \in SectionsOfData :
        /\ call.op = "none"
        /\ call' = Called("get_line_items_for_section", <<section>>,
                          get_line_items_for_section(section))
        /\ data' = data_after({ITEMS}, data)
        /\ UNCHANGED <<form, cache, files, trace>>

GetCommentsForLineItem ==
    \E line_item \in ItemsOfData :
        /\ call.op = "none"
        /\ call' = Called("get_comments_for_line_item", <<line_item>>,
                          get_comments_for_line_item(line_item))
        /\ data' = data_after({COMMENTS}, data)
        /\ UNCHANGED <<form, cache, files, trace>>

GetStatusLabel ==
    \E status_code \in StatusInputs :
        /\ call.op = "none"
        /\ call' = Called("get_status_label", <<status_code>>, get_status_label(status_code))
        /\ UNCHANGED <<data, form, cache, files, trace>>

GetCheckboxStates ==
    \E status_code \in StatusInputs :
        /\ call.op = "none"
        /\ call' = Called("get_checkbox_states", <<status_code>>,
                          get_checkbox_states(status_code))
        /\ UNCHANGED <<data, form, cache, files, trace>>

NextSections ==
    \/ GetSections
    \/ GetLineItemsForSection
    \/ GetCommentsForLineItem
    \/ GetStatusLabel
    \/ GetCheckboxStates
    \/ Return

SpecSections == InitSections /\ [][NextSections]_vars

-----------------------------------------------------------------------------
(* Properties of the sorted views and status lookups *)

\* the array a sorting call was given
SortInput ==
    CASE call.op = "get_sections" -> DictGet(inspection, "sections", PyList(<<>>))
      [] call.op = "get_line_items_for_section" ->
            DictGet(call.args[1], "lineItems", PyList(<<>>))
      [] call.op = "get_comments_for_line_item" ->
            DictGet(call.args[1], "comments", PyList(<<>>))

\* the order of an entity as a number, 0 when it has none
OrderNumber(x) ==
    IF "order" \in DOMAIN x.v THEN x.v["order"].v[1] * Limb + x.v["order"].v[2] ELSE 0

\* the place of the entity e in the sequence q
PlaceIn(q, e) == CHOOSE i \in 1..Len(q) : q[i] = e

\* out holds the entities of inp, each once, in ascending order, and entities
\* of equal order in the sequence they have in inp
IsStableSortOf(out, inp) ==
    /\ Len(out) = Len(inp)
    /\ \A i \in 1..Len(inp) : \E j \in 1..Len(out) : out[j] = inp[i]
    /\ \A i, j \in 1..Len(out) : i # j => out[i] # out[j]
    /\ \A i, j \in 1..Len(out) : i < j => OrderNumber(out[i]) <= OrderNumber(out[j])
    /\ \A i, j \in 1..Len(inp) :
            (i < j /\ OrderNumber(inp[i]) = OrderNumber(inp[j]))
                => PlaceIn(out, inp[i]) < PlaceIn(out, inp[j])

\* C5: get_sections, get_line_items_for_section and get_comments_for_line_item
\* return a permutation of their input array in ascending order (an entity
\* without an order counts as 0), entities of equal order keeping the relative
\* position they have in the source array.
C5_StableSort ==
    (/\ call.op \in {"get_sections", "get_line_items_for_section",
                      "get_comments_for_line_item"}
     /\ ~Raised(call.ret))
        => /\ call.ret.t = "list"
           /\ IsStableSortOf(call.ret.v, SortInput.v)

\* line items given as (1, 0, none) come back as the second, the third, the first
C5_Witness ==
    /\ call.op = "get_line_items_for_section"
    /\ ~Raised(call.ret)
    /\ Len(call.ret.v) = 3
    /\ [i \in 1..3 |-> call.ret.v[i].v["name"].v] = <<"L2", "L3", "L1">>
    /\ "order" \notin DOMAIN call.ret.v[2].v

\* C6: get_status_label maps I, NI, NP and D to 'Inspected', 'Not Inspected',
\* 'Not Present' and 'Deficient', and None to the sentinel string.
C6_StatusLabels ==
    call.op = "get_status_label" =>
        LET code == call.args[1]
            isCode(c) == code.t = "str" /\ code.v = c
        IN  /\ isCode("I") => Same(call.ret, PyStr("Inspected"))
            /\ isCode("NI") => Same(call.ret, PyStr("Not Inspected"))
            /\ isCode("NP") => Same(call.ret, PyStr("Not Present"))
            /\ isCode("D") => Same(call.ret, PyStr("Deficient"))
            /\ code.t = "None" => Same(call.ret, PyStr(SENTINEL))

C6_Witness ==
    /\ call.op = "get_status_label"
    /\ Same(call.args[1], PyStr("NP"))
    /\ Same(call.ret, PyStr("Not Present"))

StatusCodes == {"I", "NI", "NP", "D"}

\* a status string that is none of the four codes
UnknownCode(code) == code.t = "str" /\ code.v \notin StatusCodes

\* C7 as stated: get_status_label returns the sentinel string for every status
\* string that is not one of I, NI, NP, D, as it does for an absent code.
C7_UnknownIsSentinel ==
    (call.op = "get_status_label" /\ (UnknownCode(call.args[1]) \/ call.args[1].t = "None"))
        => Same(call.ret, PyStr(SENTINEL))

\* C7 amended: for an absent code or a string that is not one of I, NI, NP, D,
\* get_status_label returns the sentinel string exactly when the code is
\* absent, empty, or the sentinel string itself.
C7_SentinelOnlyForEmpty ==
    (call.op = "get_status_label" /\ (UnknownCode(call.args[1]) \/ call.args[1].t = "None"))
        => (Same(call.ret, PyStr(SENTINEL))
                <=> (call.args[1].t = "None" \/ call.args[1].v \in {"", SENTINEL}))

C7_Witness ==
    /\ call.op = "get_status_label"
    /\ Same(call.args[1], PyStr("X"))
    /\ ~Same(call.ret, PyStr(SENTINEL))

\* C8: get_status_label returns the raw code unchanged for every non-empty
\* status string that is not one of I, NI, NP, D.
C8_RawCodePassthrough ==
    (call.op = "get_status_label" /\ UnknownCode(call.args[1]) /\ call.args[1].v # "")
        => Same(call.ret, call.args[1])

C8_Witness ==
    /\ call.op = "get_status_label"
    /\ Same(call.args[1], PyStr("i"))
    /\ Same(call.ret, PyStr("i"))

\* the keys of a checkbox mapping that hold True
Checked(states) == {k \in DOMAIN states.v : states.v[k].t = "bool" /\ states.v[k].v}

\* C9: get_checkbox_states returns a mapping over exactly I, NI, NP, D; exactly
\* one value is true when the status is absent (I) or one of the four codes
\* (that code), and all four are false for any other status string.
C9_CheckboxStates ==
    (call.op = "get_checkbox_states" /\ call.args[1].t \in {"None", "str"}) =>
        LET code == call.args[1]
        IN  /\ call.ret.t = "dict"
            /\ DOMAIN call.ret.v = StatusCodes
            /\ \A k \in StatusCodes : call.ret.v[k].t = "bool"
            /\ Checked(call.ret) =
                    IF code.t = "None" THEN {"I"}
                    ELSE IF code.v \in StatusCodes THEN {code.v}
                    ELSE {}

\* an unrecognized status string leaves the four boxes unchecked
C9_Witness ==
    /\ call.op = "get_checkbox_states"
    /\ Same(call.args[1], PyStr("X"))
    /\ Checked(call.ret) = {}

-----------------------------------------------------------------------------
(* The TRECFieldMapper filling the form *)

\* field names a group is made of: the four checkboxes of the second page and
\* a name no widget of the form has
GroupNames == {"cb1", "cb2", "cb3", "cb4", "ghost"}

\* groups of distinct names
GroupInputs ==
    {g \in SeqsUpTo(GroupNames, MaxGroupLen) : \A i, j \in 1..Len(g) : i # j => g[i] # g[j]}

FormStatusInputs ==
    {PyNone, PyStr(""), PyStr("I"), PyStr("NI"), PyStr("NP"), PyStr("D"), PyStr("X"),
     PyList(<<PyStr("D")>>)}

InitForm ==
    /\ data = Doc("sections" :> SampleSections)
    /\ form = TemplateForm
    /\ call = NoCall
    /\ cache = NoImages
    /\ files = InputFiles
    /\ trace = <<>>

FillCheckboxForStatus ==
    \E checkbox_group \in GroupInputs, status \in FormStatusInputs, accepts \in BOOLEAN :
        LET done == fill_checkbox_for_status(form, checkbox_group, status, accepts)
        IN  /\ call.op = "none"
            /\ form' = done.doc
            /\ call' = Called("fill_checkbox_for_status",
                              <<form, checkbox_group, status, accepts>>, done.ret)
            /\ UNCHANGED <<data, cache, files, trace>>

NextForm == FillCheckboxForStatus \/ Return

SpecForm == InitForm /\ [][NextForm]_vars

-----------------------------------------------------------------------------
(* Properties of the form filling *)

Places(doc) == UNION {{<<p, i>> : i \in 1..Len(doc[p])} : p \in 1..Len(doc)}

\* after differs from before in nothing but the value of the widgets named
\* name, which is True
OnlyMarked(before, after, name) ==
    /\ Len(after) = Len(before)
    /\ \A p \in 1..Len(before) : Len(after[p]) = Len(before[p])
    /\ \A pos \in Places(before) :
            LET old == before[pos[1]][pos[2]]
                new == after[pos[1]][pos[2]]
            IN  IF old.name = name
                THEN new = [old EXCEPT !.value = PyBool(TRUE)]
                ELSE new = old

\* a call of fill_checkbox_for_status with four names of the form and one of
\* the four status codes
FourFieldCall ==
    /\ call.op = "fill_checkbox_for_status"
    /\ Len(call.args[2]) = 4
    /\ \A i \in 1..4 : WidgetsNamed(call.args[1], call.args[2][i]) # {}
    /\ call.args[3].t = "str"
    /\ call.args[3].v \in StatusCodes

\* the place in a group that a status code stands for
IndexOfCode(code) ==
    CASE code = "I" -> 0 [] code = "NI" -> 1 [] code = "NP" -> 2 [] code = "D" -> 3

EffectiveCode(status) ==
    IF status.t = "str" /\ status.v \in StatusCodes THEN status.v ELSE "I"

\* C12: fill_checkbox_for_status returns 0 and marks no field of the form
\* whenever the index of the status is not smaller than the length of the
\* group (a group of 2 names with status NP or D).
C12_ShortGroupNoOp ==
    (/\ call.op = "fill_checkbox_for_status"
     /\ Hashable(call.args[3])
     /\ IndexOfCode(EffectiveCode(call.args[3])) >= Len(call.args[2]))
        => /\ Same(call.ret, PyInt(0))
           /\ form = call.args[1]

\* a group of two names of the form, status NP, a form that takes writes
C12_Witness ==
    /\ call.op = "fill_checkbox_for_status"
    /\ call.args[2] = <<"cb1", "cb2">>
    /\ Same(call.args[3], PyStr("NP"))
    /\ call.args[4]
    /\ Same(call.ret, PyInt(0))
    /\ form = call.args[1]


-----------------------------------------------------------------------------
(* Filling the line items of one form page *)

\* the longest list of line items handed to one page
MaxItems == 2

RECURSIVE Repeat(_, _)
Repeat(s, n) == IF n = 0 THEN "" ELSE s \o Repeat(s, n - 1)

\* a comment text longer than a form field takes
LongText == Repeat("0123456789", 25)

\* a page of ncheck checkboxes followed by ntext text fields
PageOf(p, ncheck, ntext) ==
    [k \in 1..(ncheck + ntext) |->
        IF k <= ncheck THEN Widget("p" \o NatText(p) \o "c" \o NatText(k), CHECKBOX, PyBool(FALSE))
        ELSE Widget("p" \o NatText(p) \o "t" \o NatText(k - ncheck), TEXT, PyStr(""))]

\* a template whose page p has layout[p + 1] = <<ncheck, ntext>> fields
TemplateOf(layout) == [q \in 1..Len(layout) |-> PageOf(q - 1, layout[q][1], layout[q][2])]

\* page 0: text only; page 1: two groups, one checkbox over, one text field;
\* page 2: one group, two text fields; page 3: less than one group
PageTemplate == TemplateOf(<< <<0, 2>>, <<9, 1>>, <<4, 2>>, <<3, 1>> >>)

CommentOf(text) == PyDict(Opt("text", text))
LineItemOf(name, status, comments) ==
    PyDict(("name" :> PyStr(name)) @@ Opt("inspectionStatus", status) @@ Opt("comments", comments))

ItemPool ==
    { LineItemOf("Roof", PyStr("I"), PyList(<<CommentOf(PyStr(LongText))>>)),
      LineItemOf("Walls", Absent, PyList(<<>>)),
      LineItemOf("Doors", PyNone, PyList(<<CommentOf(PyStr("")), CommentOf(PyStr("second"))>>)),
      LineItemOf("Stairs", PyStr("X"), PyList(<<CommentOf(PyStr("short"))>>)),
      LineItemOf("Attic", PyStr("D"), Absent),
      LineItemOf("Floors", PyStr(""), PyList(<<CommentOf(Absent)>>)),
      LineItemOf("Windows", PyStr("NP"), PyList(<<CommentOf(PyStr("short")), CommentOf(PyStr("other"))>>)),
      LineItemOf("Porch", PyStr("NI"), PyList(<<CommentOf(PyNone)>>)),
      LineItemOf("Garage", PyList(<<PyStr("I")>>), PyList(<<>>)),
      PyNone }

LineItemInputs == UNION {[1..n -> ItemPool] : n \in 0..MaxItems}
\* 7 is a page the template does not have
PageNums == {1, 2, 3, 7}
RefusedInputs(page_num) ==
    { {}, {<<page_num, "checkbox", 0>>}, {<<page_num, "text", 0>>},
      {<<page_num, "checkbox", 1>>},
      {<<page_num, kind, i>> : kind \in {"checkbox", "text"}, i \in 0..MaxItems} }

InitPage ==
    /\ data = EmptyDict
    /\ form = PageTemplate
    /\ call = NoCall
    /\ cache = NoImages
    /\ files = InputFiles
    /\ trace = <<>>

FillLineItemsOnPage ==
    /\ call.op = "none"
    /\ \E page_num \in PageNums, line_items \in LineItemInputs :
        \E start_idx \in 0..Len(line_items), refused \in RefusedInputs(page_num) :
            LET done == fill_line_items_on_page(form, page_num, line_items, start_idx, refused)
            IN  /\ form' = done.doc
                /\ call' = Called("fill_line_items_on_page",
                                  <<form, page_num, line_items, start_idx, refused>>, done.ret)
    /\ UNCHANGED <<data, cache, files, trace>>

\* fitz.open(self.template_path): the next report starts from the blank template
Reopen ==
    /\ call.op # "none"
    /\ form' = Blank(form)
    /\ call' = NoCall
    /\ UNCHANGED <<data, cache, files, trace>>

NextPage == FillLineItemsOnPage \/ Reopen

SpecPage == InitPage /\ [][NextPage]_vars

PageCallReturned == call.op = "fill_line_items_on_page" /\ call.ret.t = "tuple"


\* the arguments and the result of the page call in call
PageBefore == call.args[1]
PageNum == call.args[2]
PageItems == call.args[3]
PageStart == call.args[4]
PageRefused == call.args[5]
CheckboxesFilled == IntOf(call.ret.v[1])
ItemsProcessed == IntOf(call.ret.v[2])

\* the value of the one field called name
ValueOf(doc, name) ==
    LET pos == CHOOSE pos \in WidgetsNamed(doc, name) : TRUE
    IN  doc[pos[1]][pos[2]].value

CountOfType(doc, page_num, type) ==
    IF page_num + 1 \in DOMAIN doc
    THEN Cardinality({k \in DOMAIN doc[page_num + 1] : doc[page_num + 1][k].type = type})
    ELSE 0

\* field k (1..4) of group i and text field i of a templated page, i from 0
GroupField(page_num, i, k) == "p" \o NatText(page_num) \o "c" \o NatText(4 * i + k)
TextField(page_num, i) == "p" \o NatText(page_num) \o "t" \o NatText(i + 1)

\* the line item paired with slot i, and the status it carries
SlotItem(i) == PageItems[PageStart + i + 1]
SlotStatus(i) ==
    IF "inspectionStatus" \in DOMAIN SlotItem(i).v THEN SlotItem(i).v["inspectionStatus"]
    ELSE Absent
Unrecognized(status) == ~(status.t = "str" /\ status.v \in StatusCodes)

\* C11: a processed line item whose status is absent or is none of I, NI, NP,
\* D is treated as I: the first field of its group is marked (unless the form
\* refuses that write) and no other field of the group is, so its status
\* never leaves its group unmarked.
C11_DefaultsToInspected ==
    PageCallReturned =>
        \A i \in 0..(ItemsProcessed - 1) :
            Unrecognized(SlotStatus(i)) =>
                /\ Same(ValueOf(form, GroupField(PageNum, i, 1)),
                        PyBool(<<PageNum, "checkbox", i>> \notin PageRefused))
                /\ \A k \in 2..4 : Same(ValueOf(form, GroupField(PageNum, i, k)), PyBool(FALSE))

C11_Witness ==
    /\ PageCallReturned
    /\ PageNum = 1 /\ PageStart = 0 /\ PageRefused = {}
    /\ Len(PageItems) = 2
    /\ SlotStatus(0).t = "absent"
    /\ Same(SlotStatus(1), PyStr("X"))
    /\ CheckboxesFilled = 2
    /\ Same(ValueOf(form, "p1c1"), PyBool(TRUE))
    /\ Same(ValueOf(form, "p1c5"), PyBool(TRUE))

\* C14: fill_line_items_on_page pairs group i of the page with item
\* start_idx + i and stops when the groups or the items run out:
\* items_processed = min(number of groups, number of items - start_idx),
\* checkboxes_filled <= items_processed, the field marked in group i is the one
\* of the status of item start_idx + i, and no later group is touched.
C14_PositionalPairing ==
    PageCallReturned =>
        LET groups == CountOfType(PageBefore, PageNum, CHECKBOX) \div 4
            left == Len(PageItems) - PageStart
        IN  /\ ItemsProcessed = IF groups < left THEN groups ELSE left
            /\ CheckboxesFilled <= ItemsProcessed
            /\ \A i \in 0..(groups - 1), k \in 1..4 :
                Same(ValueOf(form, GroupField(PageNum, i, k)),
                     PyBool(/\ i < ItemsProcessed
                            /\ <<PageNum, "checkbox", i>> \notin PageRefused
                            /\ k = IndexOfCode(EffectiveCode(SlotStatus(i))) + 1))

C14_Witness ==
    /\ PageCallReturned
    /\ PageNum = 1 /\ PageStart = 1 /\ PageRefused = {}
    /\ Len(PageItems) = 2
    /\ Same(SlotStatus(0), PyStr("D"))
    /\ ItemsProcessed = 1 /\ CheckboxesFilled = 1
    /\ Same(ValueOf(form, "p1c4"), PyBool(TRUE))

\* the first comment of the item of slot i has a non-empty text
HasFirstText(i) ==
    /\ "comments" \in DOMAIN SlotItem(i).v
    /\ SlotItem(i).v["comments"].t = "list"
    /\ SlotItem(i).v["comments"].v # <<>>
    /\ "text" \in DOMAIN SlotItem(i).v["comments"].v[1].v
    /\ SlotItem(i).v["comments"].v[1].v["text"].t = "str"
    /\ SlotItem(i).v["comments"].v[1].v["text"].v # ""
FirstText(i) == SlotItem(i).v["comments"].v[1].v["text"].v

IsPrefixUpTo(w, text, n) ==
    /\ Len(w) = (IF Len(text) < n THEN Len(text) ELSE n)
    /\ w = SubSeq(text, 1, Len(w))

-----------------------------------------------------------------------------
(* Laying the line items of a document over the form pages *)

\* the most sections of a document
MaxSections == 3
\* the numbers of line items a section may hold
SectionSizes == {0, 1, 11, 15, 21}

ReportStatuses == <<PyStr("I"), PyStr("NI"), PyStr("NP"), PyStr("D"), Absent>>

\* section k is named S<k> and its line item j S<k>L<j>; the sections are in
\* descending order in the file, and so are the items of the odd sections
ReportItem(k, j, n) ==
    PyDict(("name" :> PyStr("S" \o NatText(k) \o "L" \o NatText(j)))
        @@ ("order" :> PyInt(IF k % 2 = 1 THEN n - j ELSE j))
        @@ Opt("inspectionStatus", ReportStatuses[((k + j) % 5) + 1])
        @@ Opt("comments", IF j % 4 = 1
                           THEN PyList(<<CommentOf(PyStr("note " \o NatText(k) \o "." \o NatText(j)))>>)
                           ELSE Absent))

ReportDoc(sizes) ==
    PyDict("inspection" :> PyDict("sections" :> PyList(
        [k \in 1..Len(sizes) |->
            PyDict(("name" :> PyStr("S" \o NatText(k)))
                @@ ("order" :> PyInt(10 - k))
                @@ ("lineItems" :> PyList([j \in 1..sizes[k] |-> ReportItem(k, j, sizes[k])])))])))

ReportDocs == {ReportDoc(sizes) : sizes \in [1..MaxSections -> SectionSizes]}

\* pages 2..5 hold 12, 8, 12 and 7 complete groups
ReportTemplate ==
    TemplateOf(<< <<0, 2>>, <<0, 0>>, <<48, 2>>, <<34, 1>>, <<48, 0>>, <<28, 1>> >>)

ReportRefused == { {}, {<<2, "checkbox", 0>>, <<3, "text", 0>>} }

InitReport ==
    /\ data \in ReportDocs
    /\ form = ReportTemplate
    /\ call = NoCall
    /\ cache = NoImages
    /\ files = InputFiles
    /\ trace = <<>>

FillInspectionCheckboxes ==
    /\ call.op = "none"
    /\ \E refused \in ReportRefused :
        LET done == fill_inspection_checkboxes(form, refused)
        IN  /\ form' = done.doc
            /\ call' = Called("_fill_inspection_checkboxes", <<form, refused>>,
                              [t |-> done.ret.t, v |-> done.ret.v, calls |-> done.calls])
    /\ data' = data_after({SECTIONS, ITEMS}, data)
    /\ UNCHANGED <<cache, files, trace>>

NextReport == FillInspectionCheckboxes \/ Reopen

SpecReport == InitReport /\ [][NextReport]_vars

ReportCallReturned == call.op = "_fill_inspection_checkboxes" /\ call.ret.t = "None"


\* the sections of the document as the file lists them, and the places
\* <<a, b>> of its line items: item b of section a
FileSections == data.v["inspection"].v["sections"].v
FileItems(a) == FileSections[a].v["lineItems"].v
ItemPlaces == UNION {{<<a, b>> : b \in DOMAIN FileItems(a)} : a \in DOMAIN FileSections}
OrderOf(x) == IntOf(x.v["order"])

\* the index of item b of section a in the flattened sequence: the number of
\* line items that come before it by section order, then by line-item order
FlatIndex(a, b) ==
    Cardinality({pl \in ItemPlaces :
        \/ OrderOf(FileSections[pl[1]]) < OrderOf(FileSections[a])
        \/ pl[1] = a /\ OrderOf(FileItems(a)[pl[2]]) < OrderOf(FileItems(a)[b])})

\* the claimed (page, first index, index after the last) of the four pages
OfferedRanges == << <<2, 0, 12>>, <<3, 12, 22>>, <<4, 22, 34>>, <<5, 34, 41>> >>

\* entry is the flattened form of item b of section a
EntryOf(entry, a, b) ==
    /\ Same(entry.v["section"], FileSections[a].v["name"])
    /\ Same(entry.v["name"], FileItems(a)[b].v["name"])

\* C13: the line items are flattened by section order then line-item order,
\* and the pages 2, 3, 4, 5 are offered, in this order, the index ranges
\* [0,12), [12,22), [22,34), [34,41) of that sequence: the item of index r is
\* offered at position r - start to the page whose range holds r and to no
\* other page, and an item of index 41 or more is offered to no page.
C13_PageRanges ==
    ReportCallReturned =>
        LET calls == call.ret.calls
        IN  /\ \A m, n \in DOMAIN calls : m < n => calls[m][1] < calls[n][1]
            /\ \A m \in DOMAIN calls : \E p \in DOMAIN OfferedRanges :
                /\ calls[m][1] = OfferedRanges[p][1]
                /\ Len(calls[m][2]) =
                     Cardinality({pl \in ItemPlaces :
                        /\ OfferedRanges[p][2] <= FlatIndex(pl[1], pl[2])
                        /\ FlatIndex(pl[1], pl[2]) < OfferedRanges[p][3]})
            /\ \A pl \in ItemPlaces : \A p \in DOMAIN OfferedRanges :
                LET r == FlatIndex(pl[1], pl[2])
                    at == r - OfferedRanges[p][2] + 1
                IN  IF OfferedRanges[p][2] <= r /\ r < OfferedRanges[p][3]
                    THEN \E m \in DOMAIN calls :
                            /\ calls[m][1] = OfferedRanges[p][1]
                            /\ at <= Len(calls[m][2])
                            /\ EntryOf(calls[m][2][at], pl[1], pl[2])
                    ELSE \A m \in DOMAIN calls :
                            calls[m][1] = OfferedRanges[p][1] =>
                                \A i \in DOMAIN calls[m][2] : ~EntryOf(calls[m][2][i], pl[1], pl[2])

\* a document of more than 41 line items, laid over all four pages
C13_Witness ==
    /\ ReportCallReturned
    /\ Cardinality(ItemPlaces) > 41
    /\ Len(call.ret.calls) = 4
    /\ Len(call.ret.calls[1][2]) = 12
    /\ Len(call.ret.calls[4][2]) = 7
    /\ \E pl \in ItemPlaces : FlatIndex(pl[1], pl[2]) = 41


\* the status the file gives the line item of each flat index, from 0
FlatStatuses ==
    LET ranks == [pl \in ItemPlaces |-> FlatIndex(pl[1], pl[2])]
        status(pl) ==
            LET item == FileItems(pl[1])[pl[2]]
            IN  IF "inspectionStatus" \in DOMAIN item.v THEN item.v["inspectionStatus"]
                ELSE Absent
    IN  CHOOSE out \in {[r \in 0..(Cardinality(ItemPlaces) - 1) |->
                            status(CHOOSE pl \in ItemPlaces : rk[pl] = r)] : rk \in {ranks}} : TRUE
FlatStatus(r) == FlatStatuses[r]

\* checkbox c (from 1) of page page_num is the one marked for the line item
\* of its group: the item of flat index s + i for group i of a page of range
\* [s, e), when that index is below e and the document has such an item
MarkedFor(flat, page_num, c) ==
    \E p \in DOMAIN OfferedRanges :
        LET i == (c - 1) \div 4
            r == OfferedRanges[p][2] + i
        IN  /\ OfferedRanges[p][1] = page_num
            /\ c <= 4 * (CountOfType(form, page_num, CHECKBOX) \div 4)
            /\ r < OfferedRanges[p][3]
            /\ r \in DOMAIN flat
            /\ <<page_num, "checkbox", i>> \notin call.args[2]
            /\ ((c - 1) % 4) = IndexOfCode(EffectiveCode(flat[r]))

\* C29: line items never overflow from one form page to another: the only
\* checkboxes marked after _fill_inspection_checkboxes are, in group k - s of
\* the page whose range [s, e) holds k, the one of the status of the item of
\* flat index k; an item beyond the last group of its page is marked on no
\* page, and the groups of the next page belong to the items of its own range.
C29_NoOverflow ==
    ReportCallReturned =>
        \A flat \in {FlatStatuses} :
            \A q \in DOMAIN form : \A c \in 1..CountOfType(form, q - 1, CHECKBOX) :
                Same(ValueOf(form, "p" \o NatText(q - 1) \o "c" \o NatText(c)),
                     PyBool(MarkedFor(flat, q - 1, c)))

\* 22 line items or more on a form whose page 3 has 8 groups for the 10 items
\* of its range: group 7 is marked for item 19, items 20 and 21 nowhere, and
\* group 0 of page 4 for item 22
C29_Witness ==
    /\ ReportCallReturned
    /\ call.args[2] = {}
    /\ Cardinality(ItemPlaces) > 22
    /\ CountOfType(form, 3, CHECKBOX) \div 4 = 8
    /\ Same(ValueOf(form, GroupField(3, 7, IndexOfCode(EffectiveCode(FlatStatus(19))) + 1)),
            PyBool(TRUE))
    /\ Same(ValueOf(form, GroupField(4, 0, IndexOfCode(EffectiveCode(FlatStatus(22))) + 1)),
            PyBool(TRUE))
    /\ EffectiveCode(FlatStatus(20)) # EffectiveCode(FlatStatus(22))


-----------------------------------------------------------------------------
(* The media of a document and its summary *)

MediaOf(url) == PyDict("url" :> PyStr(url))
MediaList(urls) == PyList([i \in 1..Len(urls) |-> MediaOf(urls[i])])
MediaComment(text, order, photos, videos) ==
    PyDict(Opt("text", text) @@ Opt("order", order) @@ Opt("photos", photos) @@ Opt("videos", videos))
MediaItem(name, order, status, comments) ==
    PyDict(Opt("name", name) @@ Opt("order", order) @@ Opt("inspectionStatus", status)
        @@ Opt("comments", comments))
MediaSection(name, order, line_items) ==
    PyDict(Opt("name", name) @@ Opt("order", order) @@ ("lineItems" :> PyList(line_items)))

\* the sections a document is put together from; k makes the names and the
\* urls of section k its own
SectionKinds == {"full", "ties", "empty", "plain", "null photos", "null text"}

SectionOfKind(kind, k) ==
    LET n == NatText(k)
    IN  CASE kind = "full" ->
            MediaSection(PyStr("S" \o n), PyInt(2),
                <<MediaItem(PyStr("S" \o n \o "L1"), PyInt(2), PyStr("I"), PyList(
                    <<MediaComment(PyStr("first"), PyInt(2),
                                   MediaList(<<n \o "a.jpg", n \o "b.jpg">>), MediaList(<<n \o "a.mp4">>)),
                      MediaComment(PyStr(LongText), PyInt(1),
                                   MediaList(<<n \o "c.jpg">>), Absent)>>)),
                  MediaItem(PyStr("S" \o n \o "L2"), PyInt(1), PyStr("D"), PyList(
                    <<MediaComment(Absent, Absent, Absent, MediaList(<<n \o "b.mp4">>))>>))>>)
          [] kind = "ties" ->
            MediaSection(Absent, PyInt(1),
                <<MediaItem(Absent, PyInt(1), Absent, PyList(
                    <<MediaComment(PyStr("short"), PyInt(1), MediaList(<<n \o "d.jpg">>), PyList(<<>>)),
                      MediaComment(PyStr(""), PyInt(1),
                                   MediaList(<<n \o "e.jpg">>),
                                   MediaList(<<n \o "c.mp4", n \o "d.mp4">>))>>))>>)
          [] kind = "empty" -> MediaSection(PyStr("S" \o n), PyInt(3), <<>>)
          [] kind = "plain" ->
            MediaSection(PyStr("S" \o n), Absent,
                <<MediaItem(PyStr("S" \o n \o "L1"), PyInt(4), PyStr("X"), Absent),
                  MediaItem(PyStr("S" \o n \o "L2"), PyInt(3), PyStr("NI"), PyList(<<>>)),
                  MediaItem(PyStr("S" \o n \o "L3"), PyInt(2), PyStr("NP"), PyList(
                    <<MediaComment(PyStr("none"), Absent, Absent, Absent)>>)),
                  MediaItem(PyStr("S" \o n \o "L4"), PyInt(1), PyNone, Absent)>>)
          [] kind = "null photos" ->
            MediaSection(PyStr("S" \o n), PyInt(1),
                <<MediaItem(PyStr("S" \o n \o "L1"), PyInt(1), PyStr("I"), PyList(
                    <<MediaComment(PyStr("text"), PyInt(1), PyNone, PyList(<<>>))>>))>>)
          [] kind = "null text" ->
            MediaSection(PyStr("S" \o n), PyInt(1),
                <<MediaItem(PyStr("S" \o n \o "L1"), PyInt(1), PyStr("I"), PyList(
                    <<MediaComment(PyNone, PyInt(1), MediaList(<<n \o "f.jpg">>), Absent)>>))>>)

DocOfSections(sections) == PyDict("inspection" :> PyDict("sections" :> PyList(sections)))

MediaDocs ==
    {DocOfSections([k \in 1..Len(kinds) |-> SectionOfKind(kinds[k], k)]) :
        kinds \in SeqsUpTo(SectionKinds, MaxSections)}

\* 3 sections of 2 line items: item d has status D and one photo, item n has
\* no status, the other four have status I
ScenarioItem(q, d, n) ==
    MediaItem(PyStr("L" \o NatText(q)), PyInt(q),
              IF q = d THEN PyStr("D") ELSE IF q = n THEN Absent ELSE PyStr("I"),
              IF q = d
              THEN PyList(<<MediaComment(PyStr("cracked"), PyInt(1), MediaList(<<"d.jpg">>), Absent)>>)
              ELSE Absent)

ScenarioDoc(d, n) ==
    DocOfSections([k \in 1..3 |->
        MediaSection(PyStr("S" \o NatText(k)), PyInt(k),
                     <<ScenarioItem(2 * k - 1, d, n), ScenarioItem(2 * k, d, n)>>)])

ScenarioDocs == {ScenarioDoc(pr[1], pr[2]) : pr \in {pr \in (1..6) \X (1..6) : pr[1] # pr[2]}}

InitMedia ==
    /\ data \in MediaDocs \cup ScenarioDocs
    /\ form = TemplateForm
    /\ call = NoCall
    /\ cache = NoImages
    /\ files = InputFiles
    /\ trace = <<>>

GetAllMedia ==
    /\ call.op = "none"
    /\ call' = Called("get_all_media", <<data>>, get_all_media)
    /\ data' = data_after({SECTIONS, ITEMS, COMMENTS}, data)
    /\ UNCHANGED <<form, cache, files, trace>>

GetSummaryStats ==
    /\ call.op = "none"
    /\ call' = Called("get_summary_stats", <<data>>, get_summary_stats)
    /\ data' = data_after({SECTIONS, ITEMS, COMMENTS}, data)
    /\ UNCHANGED <<form, cache, files, trace>>

NextMedia == GetAllMedia \/ GetSummaryStats \/ Return

SpecMedia == InitMedia /\ [][NextMedia]_vars

MediaCallReturned == call.op = "get_all_media" /\ call.ret.t = "tuple"
StatsCallReturned == call.op = "get_summary_stats" /\ call.ret.t = "dict"


\* the comments of item b of section a and the media of its comment c, as the
\* file lists them; key is "photos" or "videos"
FileComments(a, b) ==
    IF "comments" \in DOMAIN FileItems(a)[b].v THEN FileItems(a)[b].v["comments"].v ELSE <<>>
FileMedia(a, b, c, key) ==
    IF key \in DOMAIN FileComments(a, b)[c].v THEN FileComments(a, b)[c].v[key].v ELSE <<>>
MediaPlaces(key) ==
    UNION {UNION {{<<pl[1], pl[2], c, d>> : d \in DOMAIN FileMedia(pl[1], pl[2], c, key)} :
                    c \in DOMAIN FileComments(pl[1], pl[2])} : pl \in ItemPlaces}

\* x at place i comes before y at place j of the same array when sorted by
\* order (0 when absent), equal orders keeping the order of the file
OrderOr0(x) == IF "order" \in DOMAIN x.v THEN IntOf(x.v["order"]) ELSE 0
SortsBefore(x, i, y, j) == OrderOr0(x) < OrderOr0(y) \/ (OrderOr0(x) = OrderOr0(y) /\ i < j)

\* the media at place x is met before the media at place y on a walk over
\* the sorted sections, then line items, then comments, then the media list
WalkedBefore(x, y) ==
    \/ SortsBefore(FileSections[x[1]], x[1], FileSections[y[1]], y[1])
    \/ /\ x[1] = y[1]
       /\ \/ SortsBefore(FileItems(x[1])[x[2]], x[2], FileItems(x[1])[y[2]], y[2])
          \/ /\ x[2] = y[2]
             /\ \/ SortsBefore(FileComments(x[1], x[2])[x[3]], x[3],
                               FileComments(x[1], x[2])[y[3]], y[3])
                \/ x[3] = y[3] /\ x[4] < y[4]
WalkIndex(x, key) == Cardinality({y \in MediaPlaces(key) : WalkedBefore(y, x)})

MediaKeys == {<<"photos", 1>>, <<"videos", 2>>}
SourceAt(x, key) == FileMedia(x[1], x[2], x[3], key)[x[4]]

\* C16: get_all_media returns the photos, and separately the videos, in the
\* order of the walk over sections, line items and comments sorted by order
\* and each media list in file order; the result is fixed by the loaded
\* document alone, so two calls on it return equal sequences.
C16_MediaOrder ==
    MediaCallReturned =>
        \A mk \in MediaKeys :
            LET out == call.ret.v[mk[2]].v
            IN  /\ Len(out) = Cardinality(MediaPlaces(mk[1]))
                /\ \A x \in MediaPlaces(mk[1]) :
                    Same(out[WalkIndex(x, mk[1]) + 1].v["url"], SourceAt(x, mk[1]).v["url"])

\* comments out of file order, and more than one photo in a list
C16_Witness ==
    /\ MediaCallReturned
    /\ Len(call.ret.v[1].v) >= 3 /\ Len(call.ret.v[2].v) >= 2
    /\ \E x, y \in MediaPlaces("photos") :
        /\ x[1] = y[1] /\ x[2] = y[2] /\ x[3] < y[3]
        /\ WalkIndex(y, "photos") < WalkIndex(x, "photos")

NameOr(x) == IF "name" \in DOMAIN x.v THEN x.v["name"] ELSE PyStr("Unknown")
TextOr(x) == IF "text" \in DOMAIN x.v THEN x.v["text"].v ELSE ""
ContextKeys == {"section_name", "line_item_name", "comment_text"}

\* C17: every entry returned by get_all_media is the record of one photo or
\* video of the document with section_name and line_item_name set to the
\* names of the section and line item that own it ('Unknown' for one without
\* a name) and comment_text set to the first 100 characters at most of the
\* owning comment's text; the document is as before the call and its records
\* have none of the three keys.
C17_MediaContext ==
    MediaCallReturned =>
        /\ \A mk \in MediaKeys : \A i \in DOMAIN call.ret.v[mk[2]].v :
            LET entry == call.ret.v[mk[2]].v[i]
            IN  \E x \in MediaPlaces(mk[1]) :
                    /\ DOMAIN entry.v = DOMAIN SourceAt(x, mk[1]).v \cup ContextKeys
                    /\ \A key \in DOMAIN SourceAt(x, mk[1]).v :
                        Same(entry.v[key], SourceAt(x, mk[1]).v[key])
                    /\ Same(entry.v["section_name"], NameOr(FileSections[x[1]]))
                    /\ Same(entry.v["line_item_name"], NameOr(FileItems(x[1])[x[2]]))
                    /\ entry.v["comment_text"].t = "str"
                    /\ IsPrefixUpTo(entry.v["comment_text"].v,
                                    TextOr(FileComments(x[1], x[2])[x[3]]), 100)
        /\ data = call.args[1]
        /\ \A mk \in MediaKeys : \A x \in MediaPlaces(mk[1]) :
            DOMAIN SourceAt(x, mk[1]).v \cap ContextKeys = {}

\* an entry whose comment text is longer than 100 characters, and one whose
\* section has no name
C17_Witness ==
    /\ MediaCallReturned
    /\ \E i \in DOMAIN call.ret.v[1].v : Len(call.ret.v[1].v[i].v["comment_text"].v) = 100
    /\ \E i \in DOMAIN call.ret.v[1].v : Same(call.ret.v[1].v[i].v["section_name"], PyStr("Unknown"))
    /\ \E i \in DOMAIN call.ret.v[2].v : Same(call.ret.v[2].v[i].v["line_item_name"], PyStr("S1L2"))

\* C18: on a document that get_all_media walks without raising, the number
\* of photos it returns is get_summary_stats()['total_photos'] and the
\* number of videos is get_summary_stats()['total_videos'].
C18_MediaTotals ==
    /\ MediaCallReturned =>
        /\ get_summary_stats.t = "dict"
        /\ Len(call.ret.v[1].v) = IntOf(get_summary_stats.v["total_photos"])
        /\ Len(call.ret.v[2].v) = IntOf(get_summary_stats.v["total_videos"])
    /\ (StatsCallReturned /\ get_all_media.t = "tuple") =>
        /\ IntOf(call.ret.v["total_photos"]) = Len(get_all_media.v[1].v)
        /\ IntOf(call.ret.v["total_videos"]) = Len(get_all_media.v[2].v)

C18_Witness ==
    /\ StatsCallReturned
    /\ get_all_media.t = "tuple"
    /\ IntOf(call.ret.v["total_photos"]) > IntOf(call.ret.v["total_videos"])
    /\ IntOf(call.ret.v["total_videos"]) > 0
    /\ IntOf(call.ret.v["total_photos"]) = Len(get_all_media.v[1].v)

StatusAt(pl) ==
    IF "inspectionStatus" \in DOMAIN FileItems(pl[1])[pl[2]].v
    THEN FileItems(pl[1])[pl[2]].v["inspectionStatus"]
    ELSE Absent
ItemsWithStatus(code) == {pl \in ItemPlaces : Same(StatusAt(pl), PyStr(code))}
Stat(key) == IntOf(call.ret.v[key])
CounterSum == Stat("inspected") + Stat("not_inspected") + Stat("not_present") + Stat("deficient")

\* C19: get_summary_stats counts each line item in exactly one of inspected,
\* not_inspected, not_present, deficient when its status is I, NI, NP or D
\* and in none otherwise, so the four counters add up to at most
\* total_line_items, and to total_line_items exactly when every line item
\* has one of the four statuses.
C19_StatusCounters ==
    StatsCallReturned =>
        /\ Stat("inspected") = Cardinality(ItemsWithStatus("I"))
        /\ Stat("not_inspected") = Cardinality(ItemsWithStatus("NI"))
        /\ Stat("not_present") = Cardinality(ItemsWithStatus("NP"))
        /\ Stat("deficient") = Cardinality(ItemsWithStatus("D"))
        /\ Stat("total_line_items") = Cardinality(ItemPlaces)
        /\ CounterSum <= Stat("total_line_items")
        /\ CounterSum = Stat("total_line_items") <=>
            \A pl \in ItemPlaces : ~Unrecognized(StatusAt(pl))

\* items without a status, with a null and with an unknown status, next to counted ones
C19_Witness ==
    /\ StatsCallReturned
    /\ \E pl \in ItemPlaces : StatusAt(pl).t = "absent"
    /\ \E pl \in ItemPlaces : Same(StatusAt(pl), PyStr("X"))
    /\ \E pl \in ItemPlaces : StatusAt(pl).t = "None"
    /\ Stat("inspected") >= 1 /\ Stat("deficient") >= 1
    /\ CounterSum < Stat("total_line_items")

\* 3 sections of 2 line items each, one item with status D and the one photo
\* of the document, one item with no status, four items with status I
IsScenario ==
    /\ Len(FileSections) = 3
    /\ \A a \in DOMAIN FileSections : Len(FileItems(a)) = 2
    /\ Cardinality(ItemsWithStatus("D")) = 1
    /\ Cardinality({pl \in ItemPlaces : StatusAt(pl).t = "absent"}) = 1
    /\ Cardinality(ItemsWithStatus("I")) = 4
    /\ Cardinality(MediaPlaces("photos")) = 1
    /\ \A x \in MediaPlaces("photos") : <<x[1], x[2]>> \in ItemsWithStatus("D")

\* C20 as stated: the scenario yields total_sections=3, total_line_items=6,
\* deficient=1, inspected=5 and total_photos=1.
C20_ScenarioInspectedFive ==
    (StatsCallReturned /\ IsScenario) =>
        /\ Stat("total_sections") = 3 /\ Stat("total_line_items") = 6
        /\ Stat("deficient") = 1 /\ Stat("inspected") = 5 /\ Stat("total_photos") = 1

\* C20: for 3 sections of 2 line items each, one item with status D and one
\* photo, one item with no status and four with status I, get_summary_stats
\* yields total_sections=3, total_line_items=6, deficient=1, inspected=4 and
\* total_photos=1: the item without a status is counted in none of the four.
C20_ScenarioInspectedFour ==
    (StatsCallReturned /\ IsScenario) =>
        /\ Stat("total_sections") = 3 /\ Stat("total_line_items") = 6
        /\ Stat("deficient") = 1 /\ Stat("inspected") = 4 /\ Stat("total_photos") = 1
        /\ Stat("not_inspected") = 0 /\ Stat("not_present") = 0

C20_Witness ==
    /\ StatsCallReturned /\ IsScenario
    /\ Stat("inspected") = 4 /\ Stat("deficient") = 1 /\ Stat("total_photos") = 1

-----------------------------------------------------------------------------
(* Writes the form rejects *)

\* _fill_header_fields with the write outside the try
fill_header_fields_unguarded(doc, tz, refused) ==
    LET header == get_header_fields(tz)
        page == doc[1]
        RECURSIVE widgets(_, _, _)
        widgets(d, k, filled_count) ==
            IF k > Len(page) THEN [doc |-> d, ret |-> PyNone, filled_count |-> filled_count]
            ELSE IF page[k].name \notin DOMAIN header.v THEN widgets(d, k + 1, filled_count)
            ELSE IF page[k].name \in refused
            THEN [doc |-> d, ret |-> PyRaise("ValueError"), filled_count |-> filled_count]
            ELSE widgets([d EXCEPT ![1][k].value = header.v[page[k].name]], k + 1,
                         filled_count + 1)
    IN  IF Raised(header) THEN [doc |-> doc, ret |-> header, filled_count |-> 0]
        ELSE widgets(doc, 1, 0)

\* _fill_header_fields(): the document after the call, None or the exception
\* raised, and the filled_count it prints. tz is the time zone of the process
\* and refused the names of the widgets whose write the form raises on. The
\* value[:50] of the message is inside the try and follows the count, so a
\* value that cannot be sliced is written and counted all the same.
fill_header_fields(doc, tz, refused) ==
    LET header == get_header_fields(tz)
        page == doc[1]
        RECURSIVE widgets(_, _, _)
        widgets(d, k, filled_count) ==
            IF k > Len(page) THEN [doc |-> d, ret |-> PyNone, filled_count |-> filled_count]
            ELSE IF page[k].name \notin DOMAIN header.v \/ page[k].name \in refused
            THEN widgets(d, k + 1, filled_count)
            ELSE widgets([d EXCEPT ![1][k].value = header.v[page[k].name]], k + 1,
                         filled_count + 1)
    IN  IF Raised(header) THEN [doc |-> doc, ret |-> header, filled_count |-> 0]
        ELSE widgets(doc, 1, 0)

\* documents whose header is complete, partly null, or cannot be read
WriteDocs ==
    {Doc(Opt("clientInfo", c) @@ ("schedule" :> PyDict("date" :> SampleDate))) :
        c \in {Absent, PyNone, PyDict("name" :> PyNone), PyDict("name" :> PyStr("Alice"))}}

HeaderRefused == SUBSET {"Name of Client", "Date of Inspection"}

TextFieldNames == {"txt1", "Name of Client", "cb1", "ghost"}
TextValues == {PyStr("cracked"), PyInt(5), PyNone}

InitWrites ==
    /\ data \in WriteDocs
    /\ form = TemplateForm
    /\ call = NoCall
    /\ cache = NoImages
    /\ files = InputFiles
    /\ trace = <<>>

FillHeaderFields ==
    /\ call.op = "none"
    /\ \E tz \in TzOffsets, refused \in HeaderRefused :
        LET done == fill_header_fields(form, tz, refused)
        IN  /\ form' = done.doc
            /\ call' = Called("_fill_header_fields", <<form, tz, refused>>,
                              [t |-> done.ret.t, v |-> done.ret.v,
                               filled_count |-> done.filled_count])
    /\ data' = data_after({}, data)
    /\ UNCHANGED <<cache, files, trace>>

FillTextField ==
    /\ call.op = "none"
    /\ \E field_name \in TextFieldNames, value \in TextValues, accepts \in BOOLEAN :
        LET done == fill_text_field(form, field_name, value, accepts)
        IN  /\ form' = done.doc
            /\ call' = Called("fill_text_field", <<form, field_name, value, accepts>>, done.ret)
    /\ UNCHANGED <<data, cache, files, trace>>

NextWrites == FillHeaderFields \/ FillCheckboxForStatus \/ FillTextField \/ Reopen

SpecWrites == InitWrites /\ [][NextWrites]_vars

\* the header widgets of the first page that a call had a value for
HeaderTargets(doc, header) == {k \in DOMAIN doc[1] : doc[1][k].name \in DOMAIN header.v}

\* C23: a write the form rejects is skipped and the rest goes on:
\* _fill_header_fields, when the header fields can be read at all, returns
\* without raising, writes every header widget of the first page but the
\* rejected ones, leaves those as they were and counts the writes made;
\* fill_checkbox_for_status returns 0 and fill_text_field False on a rejected
\* write, and neither raises nor changes the form.
C23_RejectedWriteSkipped ==
    /\ (call.op = "_fill_header_fields" /\ ~Raised(get_header_fields(call.args[2]))) =>
            LET before == call.args[1]
                header == get_header_fields(call.args[2])
                refused == call.args[3]
                targets == HeaderTargets(before, header)
                written == {k \in targets : before[1][k].name \notin refused}
            IN  /\ call.ret.t = "None"
                /\ call.ret.filled_count = Cardinality(written)
                /\ \A k \in written : form[1][k].value = header.v[before[1][k].name]
                /\ \A q \in DOMAIN form : \A k \in DOMAIN form[q] :
                        (q # 1 \/ k \notin written) => form[q][k] = before[q][k]
    /\ (call.op = "fill_checkbox_for_status" /\ ~call.args[4]
            /\ (Truthy(call.args[3]) => Hashable(call.args[3]))) =>
            /\ Same(call.ret, PyInt(0))
            /\ form = call.args[1]
    /\ (call.op = "fill_text_field" /\ ~call.args[4]) =>
            /\ Same(call.ret, PyBool(FALSE))
            /\ form = call.args[1]

\* the form rejects the client's name and takes the date: one write counted
C23_Witness ==
    /\ call.op = "_fill_header_fields"
    /\ call.args[3] = {"Name of Client"}
    /\ call.ret.t = "None"
    /\ call.ret.filled_count = 1
    /\ Same(ValueOf(form, "Name of Client"), PyStr(""))
    /\ ValueOf(form, "Date of Inspection").t = "str"
    /\ ValueOf(form, "Date of Inspection").v # ""
    /\ Same(DictGet(DictGet(inspection, "clientInfo", EmptyDict), "name", PyNone), PyStr("Alice"))

-----------------------------------------------------------------------------
(* ImageHandler: the downloads and the cache *)

\* the Image object that fetch number serial decoded: two fetches of one url
\* give two objects. height is its height once resized for the page.
Image(serial, height) == [t |-> "image", v |-> <<serial, height>>]

\* what a fetch does: it fails (the request, the status or the decoding
\* raises) or it yields an image
Failed == [ok |-> FALSE, height |-> 0]
Fetched(height) == [ok |-> TRUE, height |-> height]

\* download_image fetching whether or not the url is in the cache
download_image_refetch(images, url, outcome, serial) ==
    IF ~outcome.ok THEN [cache |-> images, ret |-> PyNone, fetched |-> TRUE]
    ELSE LET img == Image(serial, outcome.height)
         IN  [cache |-> [u \in DOMAIN images \cup {url} |-> IF u = url THEN img ELSE images[u]],
              ret |-> img, fetched |-> TRUE]

\* download_image keeping the None of a failed fetch in the cache
download_image_poisoned(images, url, outcome, serial) ==
    IF url \in DOMAIN images THEN [cache |-> images, ret |-> images[url], fetched |-> FALSE]
    ELSE LET img == IF outcome.ok THEN Image(serial, outcome.height) ELSE PyNone
         IN  [cache |-> [u \in DOMAIN images \cup {url} |-> IF u = url THEN img ELSE images[u]],
              ret |-> img, fetched |-> TRUE]

\* download_image(url) on a handler whose cache is images: the cache after
\* the call, the image or None returned, and whether a fetch was made.
\* outcome is what the fetch does if one is made, serial the number it gets.
download_image(images, url, outcome, serial) ==
    IF url \in DOMAIN images THEN [cache |-> images, ret |-> images[url], fetched |-> FALSE]
    ELSE IF ~outcome.ok THEN [cache |-> images, ret |-> PyNone, fetched |-> TRUE]
    ELSE LET img == Image(serial, outcome.height)
         IN  [cache |-> [u \in DOMAIN images \cup {url} |-> IF u = url THEN img ELSE images[u]],
              ret |-> img, fetched |-> TRUE]

\* the most fetches one handler is followed through
MaxFetches == 3

\* three urls that differ in the case of a letter and in a trailing slash
Urls == {"http://x/a.jpg", "http://x/A.jpg", "http://x/a.jpg/"}

\* heights of resized images: max_height is 200
Heights == {40, 120, 200}
FetchOutcomes == {Failed} \cup {Fetched(h) : h \in Heights}

InitCache ==
    /\ data = EmptyDict
    /\ form = TemplateForm
    /\ call = NoCall
    /\ cache = NoImages
    /\ files = InputFiles
    /\ trace = <<>>

\* trace holds the fetches made: the url and whether an image came of it
DownloadImage ==
    /\ call.op = "none"
    /\ \E url \in Urls :
        \/ /\ url \in DOMAIN cache
           /\ LET done == download_image(cache, url, Failed, Len(trace) + 1)
              IN  /\ cache' = done.cache
                  /\ call' = Called("download_image", <<cache, url, Len(trace)>>, done.ret)
                  /\ trace' = IF done.fetched THEN Append(trace, <<url, FALSE>>) ELSE trace
        \/ /\ url \notin DOMAIN cache
           /\ Len(trace) < MaxFetches
           /\ \E outcome \in FetchOutcomes :
                LET done == download_image(cache, url, outcome, Len(trace) + 1)
                IN  /\ cache' = done.cache
                    /\ call' = Called("download_image", <<cache, url, Len(trace)>>, done.ret)
                    /\ trace' = IF done.fetched THEN Append(trace, <<url, outcome.ok>>)
                                ELSE trace
    /\ UNCHANGED <<data, form, files>>

NextCache == DownloadImage \/ Return

SpecCache == InitCache /\ [][NextCache]_vars

DownloadCalled == call.op = "download_image"
CacheBefore == call.args[1]
UrlAsked == call.args[2]
FetchesBefore == call.args[3]

\* C21: across the download_image calls of one handler the cache holds
\* exactly the urls a fetch yielded an image for, letter for letter; a call
\* keeps every entry it found, with the same image; a call for a url in the
\* cache returns the stored image and makes no fetch; so no url is fetched
\* with success twice.
C21_CacheKeepsImages ==
    /\ DOMAIN cache = {trace[i][1] : i \in {j \in DOMAIN trace : trace[j][2]}}
    /\ \A i, j \in DOMAIN trace : (i < j /\ trace[i][2] /\ trace[j][2]) => trace[i][1] # trace[j][1]
    /\ DownloadCalled =>
        /\ \A u \in DOMAIN CacheBefore : u \in DOMAIN cache /\ cache[u] = CacheBefore[u]
        /\ UrlAsked \in DOMAIN CacheBefore =>
            /\ call.ret = CacheBefore[UrlAsked]
            /\ Len(trace) = FetchesBefore
            /\ cache = CacheBefore

\* a url asked again after it was fetched, with a second url that differs in
\* case only fetched in between: the first image comes back, no fetch is made
C21_Witness ==
    /\ DownloadCalled
    /\ UrlAsked = "http://x/a.jpg"
    /\ trace = << <<"http://x/a.jpg", TRUE>>, <<"http://x/A.jpg", TRUE>> >>
    /\ FetchesBefore = 2
    /\ call.ret = Image(1, 120)
    /\ cache["http://x/A.jpg"] = Image(2, 40)

-----------------------------------------------------------------------------
(* TRECReportGenerator: the photo pages *)

\* process_image(url, max_width=400, max_height=200): the image of
\* download_image, resized, or None
process_image(images, url, outcome, serial) == download_image(images, url, outcome, serial)

\* four photos a page
photos_per_page_wide == 3 + 1

photos_per_page == 3
\* the most photos a report takes
PHOTO_CAP == 12
\* where the first photo of the first photo page and of a later one starts,
\* and the line a photo with its caption may not cross
FIRST_Y == 50 + 40
TOP_Y == 50
PAGE_END == 750

\* _add_photos(): the document, the handler's cache, None or the exception
\* raised, placed: the <<page_num, i, image, y_pos>> of every image inserted,
\* for photo i (from 1) of get_all_media, fetches: the <<url, ok>> of every
\* fetch made, and photos_added. outcomes[i] is what a fetch for photo i
\* does if one is made; serial numbers the first fetch. The captions and the
\* title are drawn text, of which the model keeps nothing.
add_photos(doc, images, outcomes, serial) ==
    LET with(media) ==
            LET photos == media.v[1].v
                RECURSIVE loop(_, _)
                loop(i, st) ==
                    IF i > Len(photos) \/ st.photos_added >= PHOTO_CAP THEN st
                    ELSE LET turned == IF st.photos_added > 0 /\ st.photos_added % photos_per_page = 0
                                       THEN [st EXCEPT !.doc = Append(st.doc, <<>>),
                                                       !.page_num = Len(st.doc), !.y_pos = TOP_Y]
                                       ELSE st
                             url == DictGet(photos[i], "url", PyStr(""))
                             \* a url that is no string is never fetched: an unhashable
                             \* one raises in the cache lookup and is caught here, any
                             \* other makes the request raise and download_image
                             \* return None
                             got == IF Truthy(url) /\ url.t = "str"
                                    THEN process_image(turned.cache, url.v, outcomes[i],
                                                       serial + Len(turned.fetches))
                                    ELSE [cache |-> turned.cache, ret |-> PyNone, fetched |-> FALSE]
                             fetches == IF got.fetched
                                        THEN Append(turned.fetches, <<url.v, outcomes[i].ok>>)
                                        ELSE turned.fetches
                             img_height == got.ret.v[2]
                             fits == turned.y_pos + img_height + 50 <= PAGE_END
                             page_num == IF fits THEN turned.page_num ELSE Len(turned.doc)
                             y_pos == IF fits THEN turned.y_pos ELSE TOP_Y
                         IN  CHOOSE out \in
                                {loop(i + 1, nxt) : nxt \in
                                    {IF got.ret.t = "None"
                                     THEN [turned EXCEPT !.cache = got.cache, !.fetches = fetches]
                                     ELSE [doc |-> IF fits THEN turned.doc ELSE Append(turned.doc, <<>>),
                                           cache |-> got.cache,
                                           ret |-> PyNone,
                                           page_num |-> page_num,
                                           y_pos |-> y_pos + img_height + 35,
                                           photos_added |-> turned.photos_added + 1,
                                           placed |-> Append(turned.placed,
                                                             <<page_num, i, got.ret, y_pos>>),
                                           fetches |-> fetches]}} : TRUE
            IN  IF Raised(media) \/ photos = <<>>
                THEN [doc |-> doc, cache |-> images, ret |-> IF Raised(media) THEN media ELSE PyNone,
                      page_num |-> 0, y_pos |-> 0, photos_added |-> 0, placed |-> <<>>, fetches |-> <<>>]
                ELSE loop(1, [doc |-> Append(doc, <<>>), cache |-> images, ret |-> PyNone,
                              page_num |-> Len(doc), y_pos |-> FIRST_Y, photos_added |-> 0,
                              placed |-> <<>>, fetches |-> <<>>])
    IN  CHOOSE out \in {with(media) : media \in {get_all_media}} : TRUE

\* the most photos of a document whose photos are tried in every way, the
\* photos of the long document, and the longest pattern its fetches follow
MaxPhotos == 3
ManyPhotos == 14
MaxPattern == 4

\* a document whose one comment holds photos
PhotoDoc(photos) ==
    LET comment == PyDict(("text" :> PyStr("worn")) @@ ("order" :> PyInt(1))
                        @@ ("photos" :> photos))
        item == PyDict(("name" :> PyStr("Shingles")) @@ ("order" :> PyInt(1))
                        @@ ("comments" :> PyList(<<comment>>)))
        section == PyDict(("name" :> PyStr("Roof")) @@ ("order" :> PyInt(1))
                        @@ ("lineItems" :> PyList(<<item>>)))
    IN  Doc("sections" :> PyList(<<section>>))

\* photos of two urls, a photo without a url and one whose url
\* is a list
PhotoPool ==
    {MediaOf("http://x/a.jpg"), MediaOf("http://x/b.jpg"), EmptyDict,
     PyDict("url" :> PyList(<<PyStr("http://x/a.jpg")>>))}

PhotoDocs ==
    {PhotoDoc(PyList(q)) : q \in SeqsUpTo(PhotoPool, MaxPhotos)}
    \cup {PhotoDoc(PyList([i \in 1..ManyPhotos |-> MediaOf("http://x/" \o NatText(i) \o ".jpg")])),
          PhotoDoc(PyInt(5))}

\* what the fetch of each of n photos does: every way for a short document,
\* a repeated pattern for the long one
PhotoOutcomes(n) ==
    IF n <= MaxPhotos THEN [1..n -> {Failed, Fetched(40), Fetched(200)}]
    ELSE {[i \in 1..n |-> pat[((i - 1) % Len(pat)) + 1]] :
            pat \in UNION {[1..k -> FetchOutcomes] : k \in 1..MaxPattern}}

InitPhotos ==
    /\ data \in PhotoDocs
    /\ form = TemplateForm
    /\ call = NoCall
    /\ cache = NoImages
    /\ files = InputFiles
    /\ trace = <<>>

AddPhotos ==
    /\ call.op = "none"
    /\ \E outcomes \in PhotoOutcomes(IF Raised(get_all_media) THEN 0
                                     ELSE Len(get_all_media.v[1].v)) :
        \E done \in {add_photos(form, cache, outcomes, Len(trace) + 1)} :
            /\ form' = done.doc
            /\ cache' = done.cache
            /\ trace' = trace \o done.fetches
            /\ call' = Called("_add_photos", <<form, cache, outcomes>>,
                              [t |-> done.ret.t, v |-> done.ret.v, placed |-> done.placed,
                               photos_added |-> done.photos_added])
    /\ UNCHANGED <<data, files>>

\* a new TRECReportGenerator on the same inspection.json, its template
\* opened anew
Construct ==
    /\ call.op # "none"
    /\ form' = Blank(call.args[1])
    /\ cache' = NoImages
    /\ trace' = <<>>
    /\ call' = NoCall
    /\ UNCHANGED <<data, files>>

NextPhotos == AddPhotos \/ Construct

SpecPhotos == InitPhotos /\ [][NextPhotos]_vars

\* _add_photos was called on a document whose media can be listed
PhotosCalled == call.op = "_add_photos" /\ ~Raised(get_all_media)

\* the photos of the document as the file lists them
FilePhotos ==
    data.v["inspection"].v["sections"].v[1].v["lineItems"].v[1].v["comments"].v[1].v["photos"].v
UrlOf(i) == IF "url" \in DOMAIN FilePhotos[i].v THEN FilePhotos[i].v["url"] ELSE PyStr("")
Usable(i) == UrlOf(i).t = "str" /\ UrlOf(i).v # ""
PhotoFetches == call.args[3]
Placed == call.ret.placed

\* photo i has an image to show: its url is a non-empty string and a fetch
\* of that url, for it or for an earlier photo, succeeds
Shown(i) ==
    /\ Usable(i)
    /\ \E j \in 1..i : Usable(j) /\ UrlOf(j) = UrlOf(i) /\ PhotoFetches[j].ok

Least(a, b) == IF a < b THEN a ELSE b

\* C22: a failed fetch aborts nothing: _add_photos returns without raising,
\* the photos it places are, in order, the photos that have an image to show,
\* up to the cap of 12, so a failure skips one photo and no later one; a
\* failed fetch returns no image and leaves no entry in the cache, which
\* holds exactly the urls of the photos placed.
C22_FailureSkipsOnePhoto ==
    PhotosCalled =>
        LET shown == {i \in DOMAIN FilePhotos : Shown(i)}
        IN  /\ call.ret.t = "None"
            /\ Len(Placed) = Least(Cardinality(shown), 12)
            /\ call.ret.photos_added = Len(Placed)
            /\ \A k \in DOMAIN Placed :
                /\ Placed[k][2] \in shown
                /\ Cardinality({i \in shown : i < Placed[k][2]}) = k - 1
                /\ Placed[k][3] = cache[UrlOf(Placed[k][2]).v]
            /\ DOMAIN cache = {UrlOf(Placed[k][2]).v : k \in DOMAIN Placed}
            /\ \A n \in DOMAIN trace : ~trace[n][2] =>
                    \/ trace[n][1] \notin DOMAIN cache
                    \/ \E m \in DOMAIN trace : m > n /\ trace[m] = <<trace[n][1], TRUE>>

\* the first fetch fails, the photos after it are placed
C22_Witness ==
    /\ PhotosCalled
    /\ Len(FilePhotos) = 3
    /\ trace = << <<"http://x/a.jpg", FALSE>>, <<"http://x/b.jpg", TRUE>>, <<"http://x/a.jpg", TRUE>> >>
    /\ Len(Placed) = 2
    /\ Placed[1][2] = 2 /\ Placed[2][2] = 3

\* C30: no page receives more than 3 photos, whatever the urls, the outcomes
\* of the fetches and the heights of the images, page breaks forced by the
\* space check included; every photo goes on a page added for photos.
C30_ThreePhotosAPage ==
    PhotosCalled =>
        /\ \A q \in DOMAIN form :
            Cardinality({k \in DOMAIN Placed : Placed[k][1] = q - 1}) <= 3
        /\ \A k \in DOMAIN Placed :
            /\ Placed[k][1] >= Len(call.args[1])
            /\ Placed[k][1] < Len(form)
            /\ Placed[k][4] + Placed[k][3].v[2] + 50 <= 750

\* twelve photos placed, a page with three of them, and a page left by the
\* space check before it had three
C30_Witness ==
    /\ PhotosCalled
    /\ Len(Placed) = 12
    /\ \E q \in DOMAIN form : Cardinality({k \in DOMAIN Placed : Placed[k][1] = q - 1}) = 3
    /\ \E k \in 1..11 : k % 3 # 0 /\ Placed[k][1] # Placed[k + 1][1]

-----------------------------------------------------------------------------
(* TRECReportGenerator: the whole report *)

\* a page added at the end of the document: it has no widget
NewPage(doc) == Append(doc, <<>>)

\* what the first comment of an item adds to y_pos in _process_sections: 12
\* when its text is drawn, 0 when not, or the exception raised
comment_line(item) ==
    LET comments == get_comments_for_line_item(item)
        comment_text == DictGet(comments.v[1], "text", PyStr(""))
        length == PyLen(comment_text)
    IN  IF Raised(comments) THEN comments
        ELSE IF comments.v = <<>> \/ ~Truthy(comment_text) THEN PyInt(0)
        ELSE IF Raised(length) THEN length
        ELSE IF IntOf(length) <= 10 THEN PyInt(0)
        ELSE IF IntOf(length) > 100 /\ comment_text.t # "str" THEN PyRaise("TypeError")
        ELSE PyInt(12)

\* _process_sections(): the document after the call and None or the
\* exception raised. The pages it adds hold drawn text only.
process_sections(doc) ==
    LET sections == get_sections
        counted == [k \in 1..Len(sections.v) |-> get_line_items_for_section(sections.v[k])]
        RECURSIVE items(_, _, _)
        items(st, line_items, j) ==
            IF j > Len(line_items) \/ j > 5 THEN st
            ELSE LET turned == IF st.y_pos > 730 THEN [st EXCEPT !.doc = NewPage(st.doc), !.y_pos = 50]
                               ELSE st
                     status == get_status_label(DictGet(line_items[j], "inspectionStatus", PyNone))
                     drawn == comment_line(line_items[j])
                 IN  IF Raised(status) THEN [turned EXCEPT !.ret = status]
                     ELSE IF Raised(drawn) THEN [turned EXCEPT !.ret = drawn]
                     ELSE CHOOSE out \in
                            {items(nxt, line_items, j + 1) :
                                nxt \in {[turned EXCEPT !.y_pos = turned.y_pos + 15 + IntOf(drawn)]}} : TRUE
        RECURSIVE each(_, _)
        each(st, k) ==
            IF k > Len(sections.v) \/ k > 10 THEN st
            ELSE LET turned == IF st.y_pos > 720 THEN [st EXCEPT !.doc = NewPage(st.doc), !.y_pos = 50]
                               ELSE st
                 IN  CHOOSE out \in
                        {IF Raised(after.ret) THEN after
                         ELSE each([after EXCEPT !.y_pos = after.y_pos + 10], k + 1) :
                            after \in {items([turned EXCEPT !.y_pos = turned.y_pos + 20],
                                             counted[k].v, 1)}} : TRUE
    IN  IF Raised(sections) THEN [doc |-> doc, y_pos |-> 0, ret |-> sections]
        ELSE IF \E k \in DOMAIN counted : Raised(counted[k])
        THEN [doc |-> doc, y_pos |-> 0,
              ret |-> counted[CHOOSE k \in DOMAIN counted :
                                /\ Raised(counted[k])
                                /\ \A m \in 1..(k - 1) : ~Raised(counted[m])]]
        ELSE each([doc |-> NewPage(doc), y_pos |-> 50 + 40, ret |-> PyNone], 1)

\* url.startswith(('http://', 'https://'))
StartsWith(text, prefix) ==
    Len(text) >= Len(prefix) /\ SubSeq(text, 1, Len(prefix)) = prefix

\* validate_url(url): a url that is true and no string has no startswith
validate_url(url) ==
    IF ~Truthy(url) THEN PyBool(FALSE)
    ELSE IF url.t # "str" THEN PyRaise("AttributeError")
    ELSE PyBool(StartsWith(url.v, "http://") \/ StartsWith(url.v, "https://"))

\* _add_videos(): the document after the call, None or the exception raised,
\* and links, the <<page_num, i, url>> of every link inserted for video i
add_videos(doc) ==
    LET with(media) ==
            LET videos == media.v[2].v
                RECURSIVE loop(_, _)
                loop(i, st) ==
                    IF i > Len(videos) \/ Len(st.links) >= 15 THEN st
                    ELSE LET url == DictGet(videos[i], "url", PyStr(""))
                             valid == validate_url(url)
                             turned == IF st.y_pos > 720
                                       THEN [st EXCEPT !.doc = NewPage(st.doc), !.y_pos = 50]
                                       ELSE st
                         IN  IF Raised(valid) THEN [st EXCEPT !.ret = valid]
                             ELSE CHOOSE out \in
                                    {loop(i + 1, nxt) : nxt \in
                                        {IF ~valid.v THEN st
                                         ELSE [turned EXCEPT
                                                 !.y_pos = turned.y_pos + 25,
                                                 !.links = Append(turned.links,
                                                            <<Len(turned.doc) - 1, i, url.v>>)]}} : TRUE
            IN  IF Raised(media) THEN [doc |-> doc, y_pos |-> 0, ret |-> media, links |-> <<>>]
                ELSE IF videos = <<>> THEN [doc |-> doc, y_pos |-> 0, ret |-> PyNone, links |-> <<>>]
                ELSE loop(1, [doc |-> NewPage(doc), y_pos |-> 50 + 40, ret |-> PyNone, links |-> <<>>])
    IN  CHOOSE out \in {with(media) : media \in {get_all_media}} : TRUE

TEMPLATE == "TREC_Template_Blank.pdf"
JSON == "inspection.json"
OUTPUT == "output_pdf.pdf"
BONUS == "bonus_pdf.pdf"

\* generate_report with the photos added before the sections are processed
report_steps_swapped == <<"header", "checkboxes", "photos", "sections", "videos", "save">>

\* the steps of generate_report after the template is opened
report_steps == <<"header", "checkboxes", "sections", "photos", "videos", "save">>

\* generate_report(output_path) on the template doc with the files present
\* in the directory. env is what the surroundings do: fault "open" makes
\* fitz.open raise and "save" doc.save, tz is the time zone, header_refused
\* and refused are the writes the form rejects, outcomes what the fetch for
\* each photo does. The result: the document as it was last, the cache,
\* None or the exception re-raised, the steps begun in order, whether the
\* document was opened, saved and closed, and the photos placed and the
\* fetches made. A Document is true when it has a page: `if self.doc` closes
\* such a document on every way out.
generate_report(doc, images, present, env, serial) ==
    LET opened == TEMPLATE \in present /\ env.fault # "open"
        after(name, st) ==
            CASE name = "header" ->
                    CHOOSE out \in
                        {[st EXCEPT !.doc = r.doc, !.ret = r.ret] :
                            r \in {fill_header_fields(st.doc, env.tz, env.header_refused)}} : TRUE
              [] name = "checkboxes" ->
                    CHOOSE out \in
                        {[st EXCEPT !.doc = r.doc, !.ret = r.ret] :
                            r \in {fill_inspection_checkboxes(st.doc, env.refused)}} : TRUE
              [] name = "sections" ->
                    CHOOSE out \in
                        {[st EXCEPT !.doc = r.doc, !.ret = r.ret] :
                            r \in {process_sections(st.doc)}} : TRUE
              [] name = "photos" ->
                    CHOOSE out \in
                        {[st EXCEPT !.doc = r.doc, !.ret = r.ret, !.cache = r.cache,
                                    !.placed = r.placed, !.fetches = r.fetches] :
                            r \in {add_photos(st.doc, st.cache, env.outcomes, serial)}} : TRUE
              [] name = "videos" ->
                    CHOOSE out \in
                        {[st EXCEPT !.doc = r.doc, !.ret = r.ret] :
                            r \in {add_videos(st.doc)}} : TRUE
              [] name = "save" ->
                    IF env.fault = "save" THEN [st EXCEPT !.ret = PyRaise("OSError")]
                    ELSE [st EXCEPT !.saved = TRUE]
        RECURSIVE run(_, _)
        run(k, st) ==
            IF k > Len(report_steps) \/ Raised(st.ret) THEN st
            ELSE CHOOSE out \in
                    {run(k + 1, nxt) : nxt \in
                        {after(report_steps[k], begun) : begun \in
                        {[st EXCEPT !.steps = Append(st.steps, report_steps[k])]}}} : TRUE
        start == [doc |-> doc, cache |-> images, ret |-> PyNone, steps |-> <<"open">>,
                  opened |-> opened, saved |-> FALSE, closed |-> FALSE,
                  placed |-> <<>>, fetches |-> <<>>]
    IN  IF ~opened THEN [start EXCEPT !.ret = PyRaise("FileNotFoundError")]
        ELSE CHOOSE out \in
                {[done EXCEPT !.closed = Len(done.doc) > 0] : done \in {run(1, start)}} : TRUE

\* check_requirements looking for inspection.json only
check_requirements_json_only(present) == {JSON} \ present

\* check_requirements(): the required files that are not there
check_requirements(present) == InputFiles \ present

\* main going on to the bonus report whatever became of the TREC report
trec_done_unchecked(report, kept) == TRUE

\* main goes on to the bonus report: generate_report did not raise and
\* output_pdf.pdf exists
trec_done(report, kept) == ~Raised(report.ret) /\ OUTPUT \in kept

\* main(): the exit code, the files of the directory afterwards, the calls
\* made in order, and what generate_report did. env.fault "load" makes the
\* constructor of TRECReportGenerator raise (inspection.json or the template
\* cannot be read) and "lost" removes output_pdf.pdf before main looks for
\* it; env.bonus is what the BonusPDFGenerator does: it writes bonus_pdf.pdf
\* ("ok"), raises ("raises") or returns with no file written ("nofile"), and
\* then main looks for the file all the same.
main(doc, images, present, env, serial) ==
    LET none == [doc |-> doc, cache |-> images, ret |-> PyNone, steps |-> <<>>,
                 saved |-> FALSE, opened |-> FALSE, closed |-> FALSE]
        trec(report) ==
            LET written == IF report.saved THEN present \cup {OUTPUT} ELSE present
                kept == IF env.fault = "lost" THEN written \ {OUTPUT} ELSE written
                took == [doc |-> report.doc, cache |-> report.cache, ret |-> report.ret,
                         steps |-> report.steps, saved |-> report.saved,
                         opened |-> report.opened, closed |-> report.closed]
            IN  IF ~trec_done(report, kept)
                THEN [ret |-> PyInt(1), files |-> kept,
                      calls |-> <<"check_requirements", "TRECReportGenerator",
                                  "generate_report">>,
                      report |-> took]
                ELSE [ret |-> PyInt(IF env.bonus = "ok" \/ (env.bonus = "nofile" /\ BONUS \in kept)
                                    THEN 0 ELSE 1),
                      files |-> IF env.bonus = "ok" THEN kept \cup {BONUS} ELSE kept,
                      calls |-> <<"check_requirements", "TRECReportGenerator",
                                  "generate_report", "BonusPDFGenerator",
                                  "bonus.generate_report">>,
                      report |-> took]
    IN  IF check_requirements(present) # {}
        THEN [ret |-> PyInt(1), files |-> present, calls |-> <<"check_requirements">>,
              report |-> none]
        ELSE IF env.fault = "load"
        THEN [ret |-> PyInt(1), files |-> present,
              calls |-> <<"check_requirements", "TRECReportGenerator">>, report |-> none]
        ELSE CHOOSE out \in
                {trec(report) : report \in
                    {generate_report(doc, images, present, env, serial)}} : TRUE

\* the template of a run: the header page, an empty page, a page of three
\* groups and two text fields, and three pages of one group
MainTemplate ==
    <<TemplateForm[1]>>
    \o SubSeq(TemplateOf(<< <<0, 0>>, <<0, 0>>, <<12, 2>>, <<4, 0>>, <<4, 0>>, <<4, 0>> >>), 2, 6)

\* an inspection of two sections: Walls, first by order, with one line item,
\* and Roof with two, the first with a comment that has photos and videos
MainDoc(client, status, text, photos, videos) ==
    LET shingles == PyDict(("name" :> PyStr("Shingles")) @@ ("order" :> PyInt(1))
                        @@ ("inspectionStatus" :> PyStr("D"))
                        @@ ("comments" :> PyList(<<PyDict(
                                ("text" :> PyStr("Shingles are worn and cracked"))
                                @@ ("photos" :> photos) @@ ("videos" :> videos))>>)))
        gutters == PyDict(("name" :> PyStr("Gutters")) @@ ("order" :> PyInt(2))
                        @@ ("inspectionStatus" :> status)
                        @@ ("comments" :> PyList(<<PyDict("text" :> text)>>)))
        siding == PyDict(("name" :> PyStr("Siding")) @@ ("inspectionStatus" :> PyStr("NI")))
    IN  Doc(("clientInfo" :> client)
            @@ ("schedule" :> PyDict("date" :> SampleDate))
            @@ ("sections" :> PyList(<<
                    PyDict(("name" :> PyStr("Roof")) @@ ("order" :> PyInt(1))
                        @@ ("lineItems" :> PyList(<<gutters, shingles>>))),
                    PyDict(("name" :> PyStr("Walls")) @@ ("order" :> PyInt(0))
                        @@ ("lineItems" :> PyList(<<siding>>)))>>)))

Alice == PyDict("name" :> PyStr("Alice"))
TwoPhotos == MediaList(<<"http://x/a.jpg", "http://x/b.jpg">>)
TwoVideos == MediaList(<<"https://v/1", "ftp://v/2">>)

\* a well-formed inspection, and five that differ from it in one value each:
\* clientInfo is null, a status is a list, a comment text is a number, photos
\* is a number, the url of a video is a number
GoodDoc == MainDoc(Alice, PyStr("NP"), PyStr("ok"), TwoPhotos, TwoVideos)
MainDocs ==
    {GoodDoc,
     MainDoc(PyNone, PyStr("NP"), PyStr("ok"), TwoPhotos, TwoVideos),
     MainDoc(Alice, PyList(<<PyStr("D")>>), PyStr("ok"), TwoPhotos, TwoVideos),
     MainDoc(Alice, PyStr("NP"), PyInt(5), TwoPhotos, TwoVideos),
     MainDoc(Alice, PyStr("NP"), PyStr("ok"), PyInt(5), TwoVideos),
     MainDoc(Alice, PyStr("NP"), PyStr("ok"), TwoPhotos, PyList(<<PyDict("url" :> PyInt(5))>>))}

\* nothing goes wrong around the run, every write is taken, every fetch
\* yields an image
Calm ==
    [fault |-> "none", bonus |-> "ok", tz |-> 0, header_refused |-> {}, refused |-> {},
     outcomes |-> [i \in 1..2 |-> Fetched(120)]]

\* what the surroundings of a run may do: one thing goes wrong with the
\* files or the bonus report, or the form rejects a write, or no fetch
\* yields an image
MainEnvs ==
    {[Calm EXCEPT !.fault = fault, !.bonus = bonus] :
        fault \in {"none", "load", "open", "save", "lost"}, bonus \in {"ok", "raises", "nofile"}}
    \cup {[Calm EXCEPT !.header_refused = {"Name of Client"}],
          [Calm EXCEPT !.refused = {<<2, "checkbox", 0>>}],
          [Calm EXCEPT !.outcomes = [i \in 1..2 |-> Failed]]}

InitMain ==
    /\ data \in MainDocs
    /\ form = MainTemplate
    /\ call = NoCall
    /\ cache = NoImages
    /\ files \in SUBSET InputFiles
    /\ trace = <<>>

\* what the call returned, with what became of the document
Outcome(ret, report) ==
    [t |-> ret.t, v |-> ret.v, raised |-> Raised(report.ret), steps |-> report.steps,
     saved |-> report.saved, opened |-> report.opened, closed |-> report.closed]

\* main() in a directory that holds files; trace is the calls it made
Main ==
    /\ call.op = "none"
    /\ \E env \in MainEnvs :
        \E done \in {main(form, cache, files, env, 1)} :
            /\ form' = done.report.doc
            /\ cache' = done.report.cache
            /\ files' = done.files
            /\ trace' = done.calls
            /\ call' = Called("main", <<form, files, env>>, Outcome(done.ret, done.report))
    /\ UNCHANGED data

\* main() is run, and run again in the directory as the run before left it;
\* every run constructs its generator anew
NextMain == Main \/ Construct

SpecMain == InitMain /\ [][NextMain]_vars

\* main() was called
MainCalled == call.op = "main"
FilesBefore == call.args[2]
MainEnv == call.args[3]
Calls == {trace[n] : n \in DOMAIN trace}
ExitCode == IntOf([t |-> call.ret.t, v |-> call.ret.v])

\* C24: when inspection.json or TREC_Template_Blank.pdf is missing, main
\* returns 1 having called check_requirements only: no generator is
\* constructed, no step of a report is begun, and the directory holds the
\* files it held before.
C24_MissingInputAborts ==
    (MainCalled /\ ~(InputFiles \subseteq FilesBefore)) =>
        /\ ExitCode = 1
        /\ trace = <<"check_requirements">>
        /\ call.ret.steps = <<>>
        /\ files = FilesBefore
        /\ form = call.args[1]

\* the template is missing, inspection.json is there
C24_Witness ==
    /\ MainCalled
    /\ FilesBefore = {JSON}
    /\ ExitCode = 1
    /\ trace = <<"check_requirements">>

\* C25: whenever both input files are present and readable, main returns 0:
\* a missing or unreadable input file is the only thing that ends the run
\* with a non-zero exit code.
C25_OnlyMissingInputFails ==
    (MainCalled /\ InputFiles \subseteq FilesBefore /\ MainEnv.fault # "load") =>
        ExitCode = 0

\* generate_report was called, by main
ReportCalled == MainCalled /\ "generate_report" \in Calls
Steps == call.ret.steps
IsPrefix(s, t) == Len(s) <= Len(t) /\ SubSeq(t, 1, Len(s)) = s

\* C27: the steps generate_report begins are, in order, a prefix of open,
\* header, checkboxes, sections, photos, videos, save, the next one begun
\* only when the one before raised nothing; the output is saved only when all
\* seven were begun and none raised; the call returns None having saved, or
\* re-raises; and a document that was opened is closed, however the call
\* ended. A step that was not begun did nothing: no page was added before
\* the sections step, no image fetched before the photos step.
C27_StepsInOrder ==
    ReportCalled =>
        /\ IsPrefix(Steps, <<"open", "header", "checkboxes", "sections", "photos", "videos", "save">>)
        /\ Len(Steps) >= 1
        /\ call.ret.saved => (Len(Steps) = 7 /\ ~call.ret.raised)
        /\ call.ret.raised <=> ~call.ret.saved
        /\ ~call.ret.raised => Len(Steps) = 7
        /\ call.ret.opened <=> Len(Steps) >= 2
        /\ call.ret.opened => call.ret.closed
        /\ (Len(Steps) < 4) => Len(form) = Len(call.args[1])
        /\ (Len(Steps) < 5) => (cache = NoImages)
        /\ call.ret.saved => (OUTPUT \in files \/ MainEnv.fault = "lost")
        /\ (~call.ret.saved /\ OUTPUT \in files) => OUTPUT \in FilesBefore

\* the sections step raises: the steps after it are not begun, nothing is
\* saved, the document is closed
C27_Witness ==
    /\ ReportCalled
    /\ Steps = <<"open", "header", "checkboxes", "sections">>
    /\ call.ret.raised
    /\ call.ret.closed
    /\ ~call.ret.saved
    /\ OUTPUT \notin files

\* the place of a call among the calls main made, 0 when it was not made
PlaceOf(name) ==
    IF name \in Calls THEN CHOOSE n \in DOMAIN trace : trace[n] = name ELSE 0

\* C28: main constructs the bonus generator only after generate_report
\* returned without raising and with output_pdf.pdf in the directory; when
\* generate_report raises or output_pdf.pdf is not there, main returns 1, the
\* bonus generator is not constructed and no bonus_pdf.pdf is written.
C28_BonusAfterReport ==
    MainCalled =>
        /\ ("BonusPDFGenerator" \in Calls) =>
                /\ 0 < PlaceOf("generate_report")
                /\ PlaceOf("generate_report") < PlaceOf("BonusPDFGenerator")
                /\ PlaceOf("BonusPDFGenerator") < PlaceOf("bonus.generate_report")
                /\ ~call.ret.raised
                /\ call.ret.saved
                /\ OUTPUT \in files
        /\ (ReportCalled /\ (call.ret.raised \/ OUTPUT \notin files)) =>
                /\ ExitCode = 1
                /\ "BonusPDFGenerator" \notin Calls
                /\ "bonus.generate_report" \notin Calls
                /\ BONUS \in files => BONUS \in FilesBefore
        /\ (BONUS \in files /\ BONUS \notin FilesBefore) => "bonus.generate_report" \in Calls

\* generate_report saved the report and the file is gone when main looks for
\* it: main returns 1 and no bonus generator is constructed
C28_Witness ==
    /\ MainCalled
    /\ MainEnv.fault = "lost"
    /\ call.ret.saved
    /\ ~call.ret.raised
    /\ OUTPUT \notin files
    /\ ExitCode = 1
    /\ trace = <<"check_requirements", "TRECReportGenerator", "generate_report">>
    /\ BONUS \notin files

-----------------------------------------------------------------------------
(* The loaded tree under the calls *)

InitTree ==
    /\ data \in MainDocs
    /\ form = MainTemplate
    /\ call = NoCall
    /\ cache = NoImages
    /\ files = InputFiles
    /\ trace = <<>>

\* the methods of the DataMapper and the steps of the report that fill the
\* form, in any order and any number of times
NextTree ==
    \/ GetHeaderFields
    \/ GetSections
    \/ GetLineItemsForSection
    \/ GetCommentsForLineItem
    \/ GetAllMedia
    \/ GetSummaryStats
    \/ FillHeaderFields
    \/ FillInspectionCheckboxes
    \/ Reopen

SpecTree == InitTree /\ [][NextTree]_vars

\* C26: no call changes the loaded tree: whatever sequence of DataMapper
\* calls and report steps is made, data stays the value parsed at
\* construction, the order of every sections, lineItems and comments list
\* included.
C26_TreeNeverMutated == [][data' = data]_vars

\* get_sections returned the sections in another order than the file lists
\* them, and the tree still lists them as the file does
C26_Witness ==
    /\ call.op = "get_sections"
    /\ call.ret.t = "list"
    /\ call.ret.v # inspection.v[SECTIONS].v
    /\ call.ret.v[1].v["name"] = PyStr("Walls")
    /\ inspection.v[SECTIONS].v[1].v["name"] = PyStr("Roof")
    /\ inspection.v[SECTIONS].v[1].v[ITEMS].v[1].v["name"] = PyStr("Gutters")

====
